---- MODULE Spec2Model ----
(***************************************************************************)
(* A model of the VibeCheck ingestion pipeline (src/backend): the          *)
(* APScheduler wrapper with its audit log and in-memory health map         *)
(* (pipeline/scheduler.py, main.py, api/routes/health.py), the retry       *)
(* wrapped fetches, the two job runners (pipeline/jobs) and the services    *)
(* they call (pipeline/services).                                          *)
(*                                                                         *)
(* Thirteen specifications share the module:                               *)
(*   Spec        the scheduler: job invocations, audit log, health map     *)
(*   SpecHealth  get_job_health / scheduler_health_check as a function of  *)
(*               (now, job_last_run)                                       *)
(*   SpecRetry   one call of a tenacity-wrapped fetch                      *)
(*   SpecJobs    invocations of poll_news_job and poll_stories_job, one    *)
(*               after the other                                           *)
(*   SpecStore   sequences of store_sentiment_timeseries calls             *)
(*   SpecDedup   check_article_exists / batch_check_duplicates as a        *)
(*               function of the input and the stored rows                 *)
(*   SpecWriters two concurrent calls of batch_insert_articles             *)
(*   SpecEntity  normalize_entity_name as a function of the mention        *)
(*   SpecNews    poll_news_job over article records with absent fields     *)
(*   SpecStories poll_stories_job over the story records its contract      *)
(*               admits                                                    *)
(*   SpecSteps   one invocation of either job, step by step                *)
(*   SpecRun     one invocation of wrapped_job_execution around a job body *)
(*   SpecExtract extract_story_sentiment as a function of the story record *)
(* Each specification moves its own variables and leaves the others at     *)
(* their idle value.                                                       *)
(*                                                                         *)
(* Time is counted in whole minutes.  Calls into third-party libraries     *)
(* (APScheduler, SQLAlchemy, tenacity) are modelled by what the library    *)
(* does for the arguments the source passes.                               *)
(***************************************************************************)
EXTENDS Integers, Sequences, FiniteSets, TLC

VARIABLES
    \* ---- scheduler (Spec, SpecHealth)
    now,                \* wall clock, minutes since process start
    scheduler_running,  \* scheduler.start() done and scheduler.shutdown() not yet
    next_execution,     \* the next fresh execution id (uuid4 modelled as a counter)
    inv,                \* per invocation: position and locals of wrapped_job_execution
    execution_log,      \* committed rows of scheduler_execution_log
    completion_writes,  \* history: committed completion writes per execution id
    job_last_run,       \* module-level dict job_last_run
    health_response,    \* last answer of GET /health/scheduler: status code and body
    \* ---- retry wrapper (SpecRetry)
    retry,              \* one tenacity-wrapped call: see InitRetry
    \* ---- job runners (SpecJobs)
    job,                \* position and locals of poll_news_job / poll_stories_job
    stats,              \* the statistics the job builds and returns
    db_session,         \* state of the AsyncSession the job was handed
    articles,           \* committed rows of table articles
    sentiment_timeseries, \* committed rows of table sentiment_timeseries
    entities,           \* names that have a row in table entities
    store_calls,        \* history: the store_sentiment_timeseries calls made
    extract_call,       \* a call of extract_story_sentiment and its result
    dedup_call,         \* a call of the deduplication service and its result
    writers,            \* concurrent storage calls, each at its own step
    normalize_call      \* a call of normalize_entity_name and its result

schedVars == <<now, scheduler_running, next_execution, inv, execution_log,
               completion_writes, job_last_run>>
healthVars == <<health_response>>
retryVars == <<retry>>
storeVars == <<store_calls, extract_call>>
dedupVars == <<dedup_call, writers>>
entityVars == <<normalize_call>>
serviceVars == <<storeVars, dedupVars, entityVars>>
jobVars == <<job, stats, db_session, articles, sentiment_timeseries, entities,
             serviceVars>>
\* what the actions of Spec leave alone
idleInSpec == <<health_response, retry, jobVars>>
vars == <<now, scheduler_running, next_execution, inv, execution_log,
          completion_writes, job_last_run, health_response, retry,
          job, stats, db_session, articles, sentiment_timeseries, entities,
          store_calls, extract_call, dedup_call, writers, normalize_call>>

\* Python's None: where a string is expected, where a datetime (a number of
\* minutes) is expected, and where a dict is expected
None == "None"
NoneTime == -1
NoneDict == <<>>

(***************************************************************************)
(* Bounds of the model                                                     *)
(***************************************************************************)
\* job invocations started in one behaviour
MaxExec == 2
\* the horizon of the clock of Spec, in minutes
MaxTime == 31

(***************************************************************************)
(* Program constants                                                       *)
(***************************************************************************)
NewsIntervalMinutes == 15
StoriesIntervalMinutes == 60
HTTP_OK == 200
HTTP_SERVICE_UNAVAILABLE == 503

JobNames == {"poll_news", "poll_stories"}
ExecIds == 1..MaxExec

\* The clock of Spec is sampled: it advances by one news interval or by one
\* news interval and a minute, so that elapsed times of 15, 16, 30 and 31
\* minutes (the two sides of the 2 x 15 threshold) occur within MaxTime.
TickSteps == {NewsIntervalMinutes, NewsIntervalMinutes + 1}

(***************************************************************************)
(* get_job_health, scheduler.py 174-234                                    *)
(***************************************************************************)
job_configs ==
    << [job_name |-> "poll_news",    interval_minutes |-> NewsIntervalMinutes],
       [job_name |-> "poll_stories", interval_minutes |-> StoriesIntervalMinutes] >>

\* is_overdue with >= in place of >: C4 depends on the strict comparison
is_overdue_ge(time_since_run, interval_minutes) ==
    time_since_run >= interval_minutes * 2

\* line 219
is_overdue(time_since_run, interval_minutes) ==
    time_since_run > interval_minutes * 2

\* never_run_status counting from process start: C6 depends on line 213
never_run_status_overdue(t, interval_minutes) ==
    [last_run |-> NoneTime, interval_minutes |-> interval_minutes,
     overdue |-> t > interval_minutes * 2, minutes_since_last_run |-> NoneTime]

\* lines 208-215: the job has no entry in job_last_run
never_run_status(t, interval_minutes) ==
    [last_run |-> NoneTime, interval_minutes |-> interval_minutes,
     overdue |-> FALSE, minutes_since_last_run |-> NoneTime]

\* lines 205-226: one iteration's jobs_status[job_name]
job_status(t, last_run, interval_minutes) ==
    IF last_run = NoneTime
    THEN never_run_status(t, interval_minutes)
    ELSE [last_run |-> last_run, interval_minutes |-> interval_minutes,
          overdue |-> is_overdue(t - last_run, interval_minutes),
          minutes_since_last_run |-> t - last_run]

\* all_healthy_step that forgets earlier jobs: C5 depends on the AND
all_healthy_last_job_only(all_healthy, overdue) ==
    ~overdue

\* lines 228-229: if overdue: all_healthy = False
all_healthy_step(all_healthy, overdue) ==
    IF overdue THEN FALSE ELSE all_healthy

\* lines 201-234: the loop over job_configs.items(), in the dict's order
RECURSIVE health_loop(_, _, _, _, _)
health_loop(k, t, last_runs, jobs_status, all_healthy) ==
    IF k > Len(job_configs)
    THEN [healthy |-> all_healthy, jobs |-> jobs_status]
    ELSE LET config == job_configs[k]
             st == job_status(t, last_runs[config.job_name], config.interval_minutes)
         IN  health_loop(k + 1, t, last_runs,
                         jobs_status @@ (config.job_name :> st),
                         all_healthy_step(all_healthy, st.overdue))

get_job_health(t, last_runs) ==
    health_loop(1, t, last_runs, <<>>, TRUE)

\* api/routes/health.py 68-74: 503 when not healthy, FastAPI's default 200 otherwise
response_status(job_health) ==
    IF ~job_health.healthy THEN HTTP_SERVICE_UNAVAILABLE ELSE HTTP_OK

(***************************************************************************)
(* wrapped_job_execution, scheduler.py 28-112, run by the two wrappers     *)
(* (115-138) that APScheduler calls on the triggers of setup_jobs          *)
(* (141-171).                                                              *)
(*                                                                         *)
(* pc of an invocation:                                                    *)
(*   idle           not started                                            *)
(*   job            awaiting job_func(db_session), line 71                 *)
(*   commit_success awaiting the commit of line 82                         *)
(*   update_health  the commit of line 82 has landed, line 85 not yet run  *)
(*   commit_failed  awaiting the commit of line 104                        *)
(*   done           returned normally                                      *)
(*   raised         an exception left wrapped_job_execution                *)
(*   cancelled      CancelledError was thrown into the coroutine           *)
(***************************************************************************)
InFlightPcs == {"job", "commit_success", "update_health", "commit_failed"}
EndedPcs == {"done", "raised", "cancelled"}

\* the value of `retry` outside SpecRetry
IdleRetry ==
    [fn |-> None, pc |-> "idle", attempt_number |-> 0,
     outcomes |-> <<>>, sleeps |-> <<>>, result |-> NoneDict]

\* how many of the curated entities a model invocation tracks
NumEntities == 3
\* utils/constants.py 9-23: the names of CURATED_ENTITIES, in list order
CURATED_ENTITIES ==
    <<"GPT-4o", "Claude", "Gemini", "Llama", "Mistral",
      "Cursor", "Lovable", "v0", "GitHub Copilot", "Replit">>
ENTITY_NAMES == [k \in 1..NumEntities |-> CURATED_ENTITIES[k]]

\* the value of `job` outside SpecJobs.  fetched[k] is <<>> while entity k
\* has no fetch result and <<result>> once its fetch has returned.
IdleJob ==
    [name |-> None, pc |-> "idle", api_key |-> FALSE, entity_index |-> 0,
     entity_id |-> 0, storage_articles |-> <<>>,
     fetched |-> [k \in 1..NumEntities |-> <<>>],
     fetch_calls |-> 0, error_log |-> <<>>]

\* no call of the deduplicator or the entity service is under way
NoServiceCall ==
    /\ dedup_call = NoneDict
    /\ writers = <<>>
    /\ normalize_call = NoneDict

NoJobRunning ==
    /\ job = IdleJob
    /\ stats = NoneDict
    /\ db_session = "active"
    /\ articles = {}
    /\ sentiment_timeseries = {}
    /\ entities = {}
    /\ store_calls = <<>>
    /\ extract_call = NoneDict
    /\ NoServiceCall

IdleInvocation ==
    [pc |-> "idle", job_name |-> None, started_at |-> NoneTime,
     log_entry |-> [status |-> None, completed_at |-> NoneTime,
                    error_message |-> None, metadata_json |-> None]]

\* InFlight of a scheduler that does not limit the instances of a job:
\* C26 depends on APScheduler's default max_instances of 1
in_flight_unlimited(job_name) == FALSE

\* APScheduler counts the running instances of a job id and compares with
\* max_instances (1, since setup_jobs passes none: scheduler.py 152-169)
InFlight(job_name) ==
    \E i \in ExecIds : inv[i].job_name = job_name /\ inv[i].pc \in InFlightPcs

\* the row of execution id i, as a set (empty or a singleton)
RowsOf(i) == {r \in execution_log : r.execution_id = i}

\* lines 56-65
new_log_entry ==
    [status |-> "running", completed_at |-> NoneTime,
     error_message |-> None, metadata_json |-> None]

\* the row a commit of invocation i's log_entry leaves in the table
RowOf(i) ==
    [execution_id |-> i, job_name |-> inv[i].job_name,
     started_at |-> inv[i].started_at,
     status |-> inv[i].log_entry.status,
     completed_at |-> inv[i].log_entry.completed_at,
     error_message |-> inv[i].log_entry.error_message,
     metadata_json |-> inv[i].log_entry.metadata_json]

\* lines 74-80: the success fields set on log_entry before the commit of line 82
success_entry(entry, t) ==
    [entry EXCEPT !.status = "success", !.completed_at = t,
                  !.metadata_json = "job_stats"]

\* lines 96-102: the failure fields set on log_entry before the commit of line 104
failed_entry(entry, t) ==
    [entry EXCEPT !.status = "failed", !.completed_at = t,
                  !.error_message = "str(exc)"]

\* job_last_run_update that touches every job: C3 depends on the key
job_last_run_update_all(m, job_name, completed_at) ==
    [j \in JobNames |-> completed_at]

\* a health map that is stamped with a time of its own, taken after the
\* commit, in place of the committed completion time
job_last_run_update_restamped(m, job_name, completed_at) ==
    [m EXCEPT ![job_name] = completed_at + 1]

\* line 85: job_last_run[job_name] = completed_at
job_last_run_update(m, job_name, completed_at) ==
    [m EXCEPT ![job_name] = completed_at]

\* An interval trigger fires and APScheduler calls the job's wrapper: lines
\* 115-138 and 50-67.  setup_jobs passes no max_instances, so APScheduler's
\* default of one running instance per job applies: a trigger that fires
\* while the job is in flight is skipped.  The commit of line 67 lands.
Trigger(job_name) ==
    /\ scheduler_running
    /\ next_execution <= MaxExec
    /\ ~InFlight(job_name)
    /\ LET i == next_execution IN
        /\ inv' = [inv EXCEPT ![i] =
                [pc |-> "job", job_name |-> job_name, started_at |-> now,
                 log_entry |-> new_log_entry]]
        /\ execution_log' = execution_log \cup
                {[execution_id |-> i, job_name |-> job_name, started_at |-> now,
                  status |-> "running", completed_at |-> NoneTime,
                  error_message |-> None, metadata_json |-> None]}
    /\ next_execution' = next_execution + 1
    /\ UNCHANGED <<now, scheduler_running, completion_writes, job_last_run,
                   idleInSpec>>

\* The same, with the commit of line 67 raising (it is outside the try): the
\* exception leaves wrapped_job_execution and no row is stored.
TriggerCommitFails(job_name) ==
    /\ scheduler_running
    /\ next_execution <= MaxExec
    /\ ~InFlight(job_name)
    /\ inv' = [inv EXCEPT ![next_execution] =
                [pc |-> "raised", job_name |-> job_name, started_at |-> now,
                 log_entry |-> new_log_entry]]
    /\ next_execution' = next_execution + 1
    /\ UNCHANGED <<now, scheduler_running, execution_log, completion_writes,
                   job_last_run,
                   idleInSpec>>

\* line 71 returns the job's statistics; lines 74-80
JobReturns(i) ==
    /\ inv[i].pc = "job"
    /\ inv' = [inv EXCEPT ![i].pc = "commit_success",
                          ![i].log_entry = success_entry(@, now)]
    /\ UNCHANGED <<now, scheduler_running, next_execution, execution_log,
                   completion_writes, job_last_run,
                   idleInSpec>>

\* line 71 raises an Exception; lines 94-102
JobRaises(i) ==
    /\ inv[i].pc = "job"
    /\ inv' = [inv EXCEPT ![i].pc = "commit_failed",
                          ![i].log_entry = failed_entry(@, now)]
    /\ UNCHANGED <<now, scheduler_running, next_execution, execution_log,
                   completion_writes, job_last_run,
                   idleInSpec>>

\* the commit of line 82 lands: the row takes the success fields
CommitSuccessOk(i) ==
    /\ inv[i].pc = "commit_success"
    /\ execution_log' = (execution_log \ RowsOf(i)) \cup {RowOf(i)}
    /\ completion_writes' = [completion_writes EXCEPT ![i] = @ + 1]
    /\ inv' = [inv EXCEPT ![i].pc = "update_health"]
    /\ UNCHANGED <<now, scheduler_running, next_execution, job_last_run,
                   idleInSpec>>

\* the commit of line 82 raises: control moves to the except branch, 94-102
CommitSuccessFails(i) ==
    /\ inv[i].pc = "commit_success"
    /\ inv' = [inv EXCEPT ![i].pc = "commit_failed",
                          ![i].log_entry = failed_entry(@, now)]
    /\ UNCHANGED <<now, scheduler_running, next_execution, execution_log,
                   completion_writes, job_last_run,
                   idleInSpec>>

\* line 85, then the wrapper's session.close() and return
UpdateHealth(i) ==
    /\ inv[i].pc = "update_health"
    /\ job_last_run' = job_last_run_update(job_last_run, inv[i].job_name,
                                           inv[i].log_entry.completed_at)
    /\ inv' = [inv EXCEPT ![i].pc = "done"]
    /\ UNCHANGED <<now, scheduler_running, next_execution, execution_log,
                   completion_writes,
                   idleInSpec>>

\* the commit of line 104 lands: the row takes the failure fields
CommitFailedOk(i) ==
    /\ inv[i].pc = "commit_failed"
    /\ execution_log' = (execution_log \ RowsOf(i)) \cup {RowOf(i)}
    /\ completion_writes' = [completion_writes EXCEPT ![i] = @ + 1]
    /\ inv' = [inv EXCEPT ![i].pc = "done"]
    /\ UNCHANGED <<now, scheduler_running, next_execution, job_last_run,
                   idleInSpec>>

\* the commit of line 104 raises: nothing catches it inside
\* wrapped_job_execution, the row keeps what was last committed
CommitFailedFails(i) ==
    /\ inv[i].pc = "commit_failed"
    /\ inv' = [inv EXCEPT ![i].pc = "raised"]
    /\ UNCHANGED <<now, scheduler_running, next_execution, execution_log,
                   completion_writes, job_last_run,
                   idleInSpec>>

\* main.py 77-81: scheduler.shutdown(wait=True) is a plain call made on the
\* event loop that runs the jobs; AsyncIOExecutor.shutdown cancels every
\* pending job future whatever `wait` is.  CancelledError is thrown into each
\* in-flight coroutine at its current await; it is a BaseException, so the
\* `except Exception` of line 94 does not catch it.
Shutdown ==
    /\ scheduler_running
    /\ scheduler_running' = FALSE
    /\ inv' = [i \in ExecIds |->
                IF inv[i].pc \in InFlightPcs
                THEN [inv[i] EXCEPT !.pc = "cancelled"]
                ELSE inv[i]]
    /\ UNCHANGED <<now, next_execution, execution_log, completion_writes,
                   job_last_run,
                   idleInSpec>>

Tick(d) ==
    /\ now + d <= MaxTime
    /\ now' = now + d
    /\ UNCHANGED <<scheduler_running, next_execution, inv, execution_log,
                   completion_writes, job_last_run,
                   idleInSpec>>

\* main.py 64-73 has run: jobs registered, scheduler started, job_last_run = {}
Init ==
    /\ now = 0
    /\ scheduler_running = TRUE
    /\ next_execution = 1
    /\ inv = [i \in ExecIds |-> IdleInvocation]
    /\ execution_log = {}
    /\ completion_writes = [i \in ExecIds |-> 0]
    /\ job_last_run = [j \in JobNames |-> NoneTime]
    /\ health_response = NoneDict
    /\ retry = IdleRetry
    /\ NoJobRunning

Next ==
    \/ \E j \in JobNames : Trigger(j)
    \/ \E j \in JobNames : TriggerCommitFails(j)
    \/ \E i \in ExecIds : JobReturns(i)
    \/ \E i \in ExecIds : JobRaises(i)
    \/ \E i \in ExecIds : CommitSuccessOk(i)
    \/ \E i \in ExecIds : CommitSuccessFails(i)
    \/ \E i \in ExecIds : UpdateHealth(i)
    \/ \E i \in ExecIds : CommitFailedOk(i)
    \/ \E i \in ExecIds : CommitFailedFails(i)
    \/ Shutdown
    \/ \E d \in TickSteps : Tick(d)

Spec == Init /\ [][Next]_vars

(***************************************************************************)
(* SpecHealth: GET /health/scheduler (api/routes/health.py 50-74) applied  *)
(* to a clock and a last-success map.  Any map [job -> None or a past      *)
(* time] is one the program can hold: line 85 writes it on a success.      *)
(***************************************************************************)
\* last-success times drawn for SpecHealth
MaxLastRun == 1
\* the latest clock value drawn for SpecHealth, in minutes
MaxHealthTime == 122

scheduler_health_check ==
    /\ health_response = NoneDict
    /\ LET job_health == get_job_health(now, job_last_run) IN
       health_response' = [status_code |-> response_status(job_health),
                           body |-> job_health]
    /\ UNCHANGED <<schedVars, retryVars, jobVars>>

InitHealth ==
    /\ now \in 0..MaxHealthTime
    /\ job_last_run \in [JobNames -> {NoneTime} \cup (0..MaxLastRun)]
    /\ \A j \in JobNames : job_last_run[j] <= now
    /\ scheduler_running = TRUE
    /\ next_execution = 1
    /\ inv = [i \in ExecIds |-> IdleInvocation]
    /\ execution_log = {}
    /\ completion_writes = [i \in ExecIds |-> 0]
    /\ health_response = NoneDict
    /\ retry = IdleRetry
    /\ NoJobRunning

NextHealth ==
    scheduler_health_check

SpecHealth == InitHealth /\ [][NextHealth]_vars

(***************************************************************************)
(* SpecRetry: one call of fetch_from_asknews_with_retry (news_job.py       *)
(* 26-55) or fetch_stories_from_asknews_with_retry (stories_job.py 35-63). *)
(* tenacity's loop: call; on an exception ask the retry predicate, then    *)
(* the stop condition, then sleep for wait(attempt_number) and call again. *)
(***************************************************************************)
StopAfterAttempt == 3
WaitMultiplier == 1
NewsWaitMin == 1
NewsWaitMax == 16
StoriesWaitMin == 2
StoriesWaitMax == 10

RetryWrappers ==
    {"fetch_from_asknews_with_retry", "fetch_stories_from_asknews_with_retry"}

\* exception classes a fetch may raise, and the builtin class hierarchy
ExcTypes ==
    {"TimeoutError", "ConnectionError", "ConnectionResetError",
     "ValueError", "RuntimeError"}
IsInstance(exc_type, cls) ==
    \/ exc_type = cls
    \/ exc_type = "ConnectionResetError" /\ cls = "ConnectionError"

\* retry on every exception: C10 depends on the exception filter
retry_if_any_exception(exc_type) ==
    exc_type \in ExcTypes

\* retry=retry_if_exception_type((TimeoutError, ConnectionError))
retry_if_exception_type(exc_type) ==
    \/ IsInstance(exc_type, "TimeoutError")
    \/ IsInstance(exc_type, "ConnectionError")

\* stop=stop_after_attempt(3)
stop_after_attempt(attempt_number) ==
    attempt_number >= StopAfterAttempt

Max2(a, b) == IF a >= b THEN a ELSE b
Min2(a, b) == IF a <= b THEN a ELSE b

\* wait_exponential whose exponent is attempt_number: C11 depends on the
\* exponent attempt_number - 1
wait_exponential_from_two(fn, attempt_number) ==
    LET exp == WaitMultiplier * 2 ^ attempt_number IN
    IF fn = "fetch_from_asknews_with_retry"
    THEN Max2(NewsWaitMin, Min2(exp, NewsWaitMax))
    ELSE Max2(StoriesWaitMin, Min2(exp, StoriesWaitMax))

\* wait=wait_exponential(multiplier, min, max): the sleep, in seconds, after
\* attempt attempt_number: max(min, min(multiplier * 2^(attempt_number-1), max))
wait_exponential(fn, attempt_number) ==
    LET exp == WaitMultiplier * 2 ^ (attempt_number - 1) IN
    IF fn = "fetch_from_asknews_with_retry"
    THEN Max2(NewsWaitMin, Min2(exp, NewsWaitMax))
    ELSE Max2(StoriesWaitMin, Min2(exp, StoriesWaitMax))

\* reraise=False, where tenacity raises RetryError: C9 depends on reraise
raise_retry_error(exc) ==
    [type |-> "RetryError", attempt |-> exc.attempt]

\* reraise=True: when the stop condition holds the last attempt's own
\* exception is raised
raise_after_stop(exc) ==
    exc

\* the call of line 55 / line 62 returns
AttemptReturns ==
    /\ retry.pc = "calling"
    /\ LET value == [type |-> "ok", attempt |-> retry.attempt_number] IN
       retry' = [retry EXCEPT !.pc = "returned",
                              !.outcomes = Append(@, value),
                              !.result = value]
    /\ UNCHANGED <<schedVars, healthVars, jobVars>>

\* the call raises an exception of class exc_type
AttemptRaises(exc_type) ==
    /\ retry.pc = "calling"
    /\ LET exc == [type |-> exc_type, attempt |-> retry.attempt_number] IN
       retry' =
         IF ~retry_if_exception_type(exc_type)
         THEN [retry EXCEPT !.pc = "raised", !.outcomes = Append(@, exc),
                            !.result = exc]
         ELSE IF stop_after_attempt(retry.attempt_number)
         THEN [retry EXCEPT !.pc = "raised", !.outcomes = Append(@, exc),
                            !.result = raise_after_stop(exc)]
         ELSE [retry EXCEPT !.pc = "sleeping", !.outcomes = Append(@, exc),
                            !.sleeps = Append(@,
                                wait_exponential(retry.fn, retry.attempt_number))]
    /\ UNCHANGED <<schedVars, healthVars, jobVars>>

\* the sleep ends and the next attempt starts
WakeUp ==
    /\ retry.pc = "sleeping"
    /\ retry' = [retry EXCEPT !.pc = "calling", !.attempt_number = @ + 1]
    /\ UNCHANGED <<schedVars, healthVars, jobVars>>

InitRetry ==
    /\ retry \in {[fn |-> f, pc |-> "calling", attempt_number |-> 1,
                   outcomes |-> <<>>, sleeps |-> <<>>, result |-> NoneDict]
                  : f \in RetryWrappers}
    /\ now = 0
    /\ scheduler_running = TRUE
    /\ next_execution = 1
    /\ inv = [i \in ExecIds |-> IdleInvocation]
    /\ execution_log = {}
    /\ completion_writes = [i \in ExecIds |-> 0]
    /\ job_last_run = [j \in JobNames |-> NoneTime]
    /\ health_response = NoneDict
    /\ NoJobRunning

NextRetry ==
    \/ AttemptReturns
    \/ \E t \in ExcTypes : AttemptRaises(t)
    \/ WakeUp

SpecRetry == InitRetry /\ [][NextRetry]_vars

(***************************************************************************)
(* SpecJobs: one invocation of poll_news_job (pipeline/jobs/news_job.py    *)
(* 58-198) or poll_stories_job (pipeline/jobs/stories_job.py 66-226) on    *)
(* the session wrapped_job_execution hands it, with the services they      *)
(* call.  The retry-wrapped fetch appears by its outcome (SpecRetry has    *)
(* the attempts): it returns a list or raises.                             *)
(*                                                                         *)
(* job.pc: start (before AskNewsClient()), fetch, store (news: batch in    *)
(* job.storage_articles, awaiting batch_insert_articles), lookup (stories: *)
(* awaiting the Entity select), returned.                                  *)
(*                                                                         *)
(* db_session is "active" or "needs_rollback": after a flush that failed   *)
(* inside commit() SQLAlchemy refuses every further use of the session     *)
(* with PendingRollbackError until rollback() is called.                   *)
(***************************************************************************)
\* ---- articles as AskNewsClient.fetch_news emits them (asknews_client.py
\* 100-108); external_id, title and url may be None
\* asknews_client.py 100-108: an article as fetch_news builds it.
\* published_at is an ISO string, sentiment an optional int (<<>> for
\* None), and every field but entity_name can be None.
IsoTimestamp == "2025-01-01T01:00:00+00:00"
fetched_article(external_id, title, url) ==
    [external_id |-> external_id, title |-> title, url |-> url,
     source_url |-> "s1", published_at |-> IsoTimestamp, sentiment |-> <<1>>]
Article11 == fetched_article("a1", "t1", "u1")
Article22 == fetched_article("a2", "t2", "u2")
\* another id under the URL of Article11
Article31 == fetched_article("a3", "t3", "u1")
ArticleNoTitle == fetched_article("a4", None, "u4")
NewsBatches ==
    {<<>>, <<Article11>>, <<Article22>>, <<Article11, Article22>>,
     <<Article11, Article31>>, <<Article11, Article31, Article22>>,
     <<ArticleNoTitle>>}
\* what a fetch can raise once the retry wrapper gives up
FetchErrors == {"TimeoutError", "ValueError"}

\* a hash that folds case before digesting: "U1" and "u1" collide
compute_url_hash_casefold(url) == <<"sha256", IF url = "U1" THEN "u1" ELSE url>>

\* deduplication_service.py 16-25: SHA256 of the bytes of the URL as given,
\* injective on the model's URLs
compute_url_hash(url) == <<"sha256", url>>

\* storage_service.py 78-91: the row stored for an article
\* storage_service.py 82-91: the row of an article in storage format
article_row(a) ==
    [external_id |-> a.external_id, title |-> a.title, url |-> a.url,
     url_hash |-> compute_url_hash(a.url), source_name |-> a.source_name,
     published_at |-> a.published_at, sentiment_score |-> a.sentiment_score]

\* utils/constants.py 27-122: the canonical names in dict order, each with
\* its variations; strings are written as the sequences of their characters
ENTITY_VARIATIONS ==
    <<
      [canonical_name |-> "GPT-4o",
       chars |-> <<"G", "P", "T", "-", "4", "o">>,
       variations |-> <<
          <<"g", "p", "t", "-", "4", "o">>,
          <<"g", "p", "t", " ", "4", "o">>,
          <<"g", "p", "t", "4", "o">>,
          <<"g", "p", "t", "-", "4", " ", "o", "m", "n", "i">>,
          <<"o", "p", "e", "n", "a", "i", " ", "g", "p", "t", "-", "4", "o">>,
          <<"c", "h", "a", "t", "g", "p", "t", "-", "4", "o">>,
          <<"o", "p", "e", "n", "a", "i", "'", "s", " ", "g", "p", "t", "-", "4", "o">>,
          <<"g", "p", "t", "-", "4", " ", "t", "u", "r", "b", "o">>
       >>],
      [canonical_name |-> "Claude",
       chars |-> <<"C", "l", "a", "u", "d", "e">>,
       variations |-> <<
          <<"c", "l", "a", "u", "d", "e">>,
          <<"c", "l", "a", "u", "d", "e", " ", "a", "i">>,
          <<"a", "n", "t", "h", "r", "o", "p", "i", "c", " ", "c", "l", "a", "u", "d", "e">>,
          <<"c", "l", "a", "u", "d", "e", " ", "3">>,
          <<"c", "l", "a", "u", "d", "e", " ", "3", ".", "5">>,
          <<"c", "l", "a", "u", "d", "e", " ", "s", "o", "n", "n", "e", "t">>,
          <<"c", "l", "a", "u", "d", "e", " ", "o", "p", "u", "s">>,
          <<"c", "l", "a", "u", "d", "e", " ", "h", "a", "i", "k", "u">>,
          <<"a", "n", "t", "h", "r", "o", "p", "i", "c", "'", "s", " ", "c", "l", "a", "u", "d", "e">>
       >>],
      [canonical_name |-> "Gemini",
       chars |-> <<"G", "e", "m", "i", "n", "i">>,
       variations |-> <<
          <<"g", "e", "m", "i", "n", "i">>,
          <<"g", "o", "o", "g", "l", "e", " ", "g", "e", "m", "i", "n", "i">>,
          <<"g", "e", "m", "i", "n", "i", " ", "p", "r", "o">>,
          <<"g", "e", "m", "i", "n", "i", " ", "u", "l", "t", "r", "a">>,
          <<"g", "e", "m", "i", "n", "i", " ", "a", "d", "v", "a", "n", "c", "e", "d">>,
          <<"g", "e", "m", "i", "n", "i", " ", "a", "i">>,
          <<"g", "o", "o", "g", "l", "e", "'", "s", " ", "g", "e", "m", "i", "n", "i">>,
          <<"b", "a", "r", "d", " ", "g", "e", "m", "i", "n", "i">>
       >>],
      [canonical_name |-> "Llama",
       chars |-> <<"L", "l", "a", "m", "a">>,
       variations |-> <<
          <<"l", "l", "a", "m", "a">>,
          <<"m", "e", "t", "a", " ", "l", "l", "a", "m", "a">>,
          <<"l", "l", "a", "m", "a", " ", "2">>,
          <<"l", "l", "a", "m", "a", " ", "3">>,
          <<"l", "l", "a", "m", "a", " ", "3", ".", "1">>,
          <<"l", "l", "a", "m", "a", " ", "3", ".", "2">>,
          <<"l", "l", "a", "m", "a", " ", "3", ".", "3">>,
          <<"m", "e", "t", "a", "'", "s", " ", "l", "l", "a", "m", "a">>,
          <<"m", "e", "t", "a", " ", "a", "i", " ", "l", "l", "a", "m", "a">>
       >>],
      [canonical_name |-> "Mistral",
       chars |-> <<"M", "i", "s", "t", "r", "a", "l">>,
       variations |-> <<
          <<"m", "i", "s", "t", "r", "a", "l">>,
          <<"m", "i", "s", "t", "r", "a", "l", " ", "a", "i">>,
          <<"m", "i", "s", "t", "r", "a", "l", " ", "7", "b">>,
          <<"m", "i", "s", "t", "r", "a", "l", " ", "l", "a", "r", "g", "e">>,
          <<"m", "i", "s", "t", "r", "a", "l", " ", "m", "e", "d", "i", "u", "m">>,
          <<"m", "i", "s", "t", "r", "a", "l", " ", "s", "m", "a", "l", "l">>,
          <<"m", "i", "x", "t", "r", "a", "l">>,
          <<"m", "i", "s", "t", "r", "a", "l", "'", "s", " ", "m", "o", "d", "e", "l", "s">>
       >>],
      [canonical_name |-> "Cursor",
       chars |-> <<"C", "u", "r", "s", "o", "r">>,
       variations |-> <<
          <<"c", "u", "r", "s", "o", "r">>,
          <<"c", "u", "r", "s", "o", "r", " ", "a", "i">>,
          <<"c", "u", "r", "s", "o", "r", " ", "e", "d", "i", "t", "o", "r">>,
          <<"c", "u", "r", "s", "o", "r", " ", "i", "d", "e">>,
          <<"c", "u", "r", "s", "o", "r", ".", "s", "h">>,
          <<"c", "u", "r", "s", "o", "r", ".", "s", "o">>,
          <<"a", "n", "y", "s", "p", "h", "e", "r", "e", " ", "c", "u", "r", "s", "o", "r">>
       >>],
      [canonical_name |-> "Lovable",
       chars |-> <<"L", "o", "v", "a", "b", "l", "e">>,
       variations |-> <<
          <<"l", "o", "v", "a", "b", "l", "e">>,
          <<"l", "o", "v", "a", "b", "l", "e", ".", "d", "e", "v">>,
          <<"l", "o", "v", "a", "b", "l", "e", " ", "a", "i">>,
          <<"g", "p", "t", "e", "n", "g", "i", "n", "e", "e", "r">>,
          <<"g", "p", "t", " ", "e", "n", "g", "i", "n", "e", "e", "r">>,
          <<"g", "p", "t", "-", "e", "n", "g", "i", "n", "e", "e", "r">>
       >>],
      [canonical_name |-> "v0",
       chars |-> <<"v", "0">>,
       variations |-> <<
          <<"v", "0">>,
          <<"v", "0", ".", "d", "e", "v">>,
          <<"v", "e", "r", "c", "e", "l", " ", "v", "0">>,
          <<"v", "0", " ", "b", "y", " ", "v", "e", "r", "c", "e", "l">>,
          <<"v", " ", "z", "e", "r", "o">>,
          <<"v", "e", "r", "c", "e", "l", "'", "s", " ", "v", "0">>
       >>],
      [canonical_name |-> "GitHub Copilot",
       chars |-> <<"G", "i", "t", "H", "u", "b", " ", "C", "o", "p", "i", "l", "o", "t">>,
       variations |-> <<
          <<"g", "i", "t", "h", "u", "b", " ", "c", "o", "p", "i", "l", "o", "t">>,
          <<"c", "o", "p", "i", "l", "o", "t">>,
          <<"g", "h", " ", "c", "o", "p", "i", "l", "o", "t">>,
          <<"g", "i", "t", "h", "u", "b", "'", "s", " ", "c", "o", "p", "i", "l", "o", "t">>,
          <<"c", "o", "p", "i", "l", "o", "t", " ", "x">>,
          <<"c", "o", "p", "i", "l", "o", "t", " ", "c", "h", "a", "t">>,
          <<"m", "i", "c", "r", "o", "s", "o", "f", "t", " ", "c", "o", "p", "i", "l", "o", "t">>
       >>],
      [canonical_name |-> "Replit",
       chars |-> <<"R", "e", "p", "l", "i", "t">>,
       variations |-> <<
          <<"r", "e", "p", "l", "i", "t">>,
          <<"r", "e", "p", "l", ".", "i", "t">>,
          <<"r", "e", "p", "l", "i", "t", " ", "a", "i">>,
          <<"r", "e", "p", "l", "i", "t", " ", "g", "h", "o", "s", "t", "w", "r", "i", "t", "e", "r">>,
          <<"g", "h", "o", "s", "t", "w", "r", "i", "t", "e", "r">>,
          <<"r", "e", "p", "l", "i", "t", " ", "a", "g", "e", "n", "t">>
       >>]
    >>

\* the characters of a string an article carries as its entity: a
\* canonical name, or "Sora", which is no tracked entity
chars_of(name) ==
    IF name = "Sora" THEN <<"S", "o", "r", "a">>
    ELSE LET e == CHOOSE k \in 1..Len(ENTITY_VARIATIONS) :
                      ENTITY_VARIATIONS[k].canonical_name = name
         IN  ENTITY_VARIATIONS[e].chars

\* a lower() that leaves every character as it is
lower_char_unchanged(c) == c

\* str.lower() on one character
lower_char(c) ==
    CASE c = "A" -> "a" []
         c = "B" -> "b" []
         c = "C" -> "c" []
         c = "D" -> "d" []
         c = "E" -> "e" []
         c = "F" -> "f" []
         c = "G" -> "g" []
         c = "H" -> "h" []
         c = "I" -> "i" []
         c = "J" -> "j" []
         c = "K" -> "k" []
         c = "L" -> "l" []
         c = "M" -> "m" []
         c = "N" -> "n" []
         c = "O" -> "o" []
         c = "P" -> "p" []
         c = "Q" -> "q" []
         c = "R" -> "r" []
         c = "S" -> "s" []
         c = "T" -> "t" []
         c = "U" -> "u" []
         c = "V" -> "v" []
         c = "W" -> "w" []
         c = "X" -> "x" []
         c = "Y" -> "y" []
         c = "Z" -> "z"
      [] OTHER -> c
\* str.lower()
lower(str) == [i \in 1..Len(str) |-> lower_char(str[i])]

\* the characters str.strip() removes
Whitespace == {" "}
\* str.strip(): leading and trailing whitespace removed
RECURSIVE lstrip(_)
lstrip(str) ==
    IF str # <<>> /\ Head(str) \in Whitespace THEN lstrip(Tail(str)) ELSE str
RECURSIVE rstrip(_)
rstrip(str) ==
    IF str # <<>> /\ str[Len(str)] \in Whitespace
    THEN rstrip(SubSeq(str, 1, Len(str) - 1))
    ELSE str
strip(str) == rstrip(lstrip(str))

\* a test that lets the characters of needle lie apart in hay
RECURSIVE contains_scattered(_, _)
contains_scattered(hay, needle) ==
    IF needle = <<>> THEN TRUE
    ELSE IF hay = <<>> THEN FALSE
    ELSE IF Head(hay) = Head(needle)
    THEN contains_scattered(Tail(hay), Tail(needle))
    ELSE contains_scattered(Tail(hay), needle)

\* Python's `needle in hay` on strings; the empty string is in every string
contains(hay, needle) ==
    \E i \in 0..(Len(hay) - Len(needle)) :
        SubSeq(hay, i + 1, i + Len(needle)) = needle

\* entity_service.py 55: either string contains the other
variation_matches(variation_lower, normalized) ==
    contains(normalized, variation_lower) \/ contains(variation_lower, normalized)

\* entity_service.py 42-63: the loop over ENTITY_VARIATIONS from entry k on;
\* the first entity whose name equals the mention or one of whose
\* variations matches is returned
RECURSIVE normalize_from(_, _)
normalize_from(normalized, k) ==
    IF k > Len(ENTITY_VARIATIONS) THEN None
    ELSE LET e == ENTITY_VARIATIONS[k]
         IN  IF normalized = lower(e.chars) THEN e.canonical_name
             ELSE IF \E v \in 1..Len(e.variations) :
                         variation_matches(lower(e.variations[v]), normalized)
             THEN e.canonical_name
             ELSE normalize_from(normalized, k + 1)

\* a scan of the table from its last entry to its first
RECURSIVE normalize_backwards(_, _)
normalize_backwards(normalized, k) ==
    IF k < 1 THEN None
    ELSE LET e == ENTITY_VARIATIONS[k]
         IN  IF normalized = lower(e.chars) THEN e.canonical_name
             ELSE IF \E v \in 1..Len(e.variations) :
                         variation_matches(lower(e.variations[v]), normalized)
             THEN e.canonical_name
             ELSE normalize_backwards(normalized, k - 1)
normalize_entity_name_last(extracted_name) ==
    normalize_backwards(lower(strip(extracted_name)), Len(ENTITY_VARIATIONS))

\* entity_service.py 17-70; extracted_name is a string, None is the Python
\* None
normalize_entity_name(extracted_name) ==
    normalize_from(lower(strip(extracted_name)), 1)

\* news_job.py 122-150
\* datetime.fromisoformat(s.replace('Z', '+00:00')) raises ValueError
news_fromisoformat_raises(s) == s # IsoTimestamp
\* the datetime of the ISO string, in minutes of the model's clock
news_fromisoformat(s) == 60
\* the fallback of line 131 left out: the string is handed on as None
published_at_unparsed_none(published_at, t) ==
    IF published_at = None \/ news_fromisoformat_raises(published_at)
    THEN NoneTime
    ELSE news_fromisoformat(published_at)
\* news_job.py 125-131: a string is parsed, with utcnow() (t) when the
\* parse fails; None is no string and stays None
parse_published_at(published_at, t) ==
    IF published_at = None THEN NoneTime
    ELSE IF news_fromisoformat_raises(published_at) THEN t
    ELSE news_fromisoformat(published_at)
\* news_job.py 136-140: float(sentiment) in halves, 0.0 when it is no number
sentiment_score_of(sentiment) ==
    IF sentiment = <<>> THEN 0 ELSE 2 * sentiment[1]
\* news_job.py 123-150: one article in storage format
transform_article(article, entity_name, t) ==
    [external_id |-> article.external_id, title |-> article.title,
     url |-> article.url, source_name |-> article.source_url,
     published_at |-> parse_published_at(article.published_at, t),
     sentiment_score |-> sentiment_score_of(article.sentiment),
     entity |-> entity_name]
\* news_job.py 122-150; datetime.utcnow() reads the clock
transform(batch, entity_name) ==
    [i \in 1..Len(batch) |-> transform_article(batch[i], entity_name, now)]
\* the row a stored article of an entity has left in table articles
stored_row(article, entity_name) ==
    article_row(transform_article(article, entity_name, 0))

\* deduplication_service.py 46-51: the external_id select finds a row
exists_by_external_id(article, table) ==
    \E r \in table : r.external_id = article.external_id
\* deduplication_service.py 54-59
exists_by_url_hash(article, table) ==
    \E r \in table : r.url_hash = compute_url_hash(article.url)
\* deduplication_service.py 28-61: line 54 raises AttributeError on url None
check_article_raises(article, table) ==
    ~exists_by_external_id(article, table) /\ article.url = None
check_article_exists(article, table) ==
    exists_by_external_id(article, table) \/ exists_by_url_hash(article, table)

\* a table articles without its unique constraints: only NOT NULL is checked
flush_violates_not_null(rows, table) ==
    \E i \in 1..Len(rows) :
        \/ rows[i].external_id = None
        \/ rows[i].title = None
        \/ rows[i].url = None
        \/ rows[i].published_at = NoneTime

\* storage_service.py 94-97: the flush of commit() inserts the rows; any
\* violated constraint of table articles (models.py 37-64: NOT NULL
\* external_id, title, url, published_at; UNIQUE external_id, url; the
\* range check of sentiment_score) fails the whole flush
flush_violates(rows, table) ==
    \/ \E i \in 1..Len(rows) :
          \/ rows[i].external_id = None
          \/ rows[i].title = None
          \/ rows[i].url = None
          \/ rows[i].published_at = NoneTime
          \/ rows[i].sentiment_score \notin -2..2
          \/ \E r \in table : r.external_id = rows[i].external_id
          \/ \E r \in table : r.url = rows[i].url
    \/ \E i, j \in 1..Len(rows) :
          /\ i < j
          /\ \/ rows[i].external_id = rows[j].external_id
             \/ rows[i].url = rows[j].url

\* a loop body that puts the article at the front of to_insert
dedup_step_prepend(acc, article, is_duplicate) ==
    IF is_duplicate
    THEN [acc EXCEPT !.duplicates_skipped = @ + 1]
    ELSE [acc EXCEPT !.to_insert = <<article>> \o @]

\* deduplication_service.py 85-91: the body of the loop
dedup_step(acc, article, is_duplicate) ==
    IF is_duplicate
    THEN [acc EXCEPT !.duplicates_skipped = @ + 1]
    ELSE [acc EXCEPT !.to_insert = Append(@, article)]

\* deduplication_service.py 78-91: the loop over the input, every article
\* checked against the stored rows
RECURSIVE dedup_loop(_, _, _)
dedup_loop(article_list, table, acc) ==
    IF article_list = <<>> THEN acc
    ELSE dedup_loop(Tail(article_list), table,
             dedup_step(acc, Head(article_list),
                        check_article_exists(Head(article_list), table)))

\* deduplication_service.py 64-99
batch_check_duplicates(article_list, table) ==
    dedup_loop(article_list, table, [to_insert |-> <<>>, duplicates_skipped |-> 0])

\* a filter that lets every article through
is_curated_always(article) == TRUE

\* storage_service.py 68-75: the article is kept when its entity
\* normalizes to a canonical name
is_curated(article) == normalize_entity_name(chars_of(article.entity)) # None

\* storage_service.py 54-109, the part after the duplicate filter: the
\* entities are normalized, the rows built, and add_all + commit inserts
\* them in one transaction.  The result: what was raised (None if the call
\* returned), the count returned, the table and the session afterwards.  The
\* commit of line 97 has no except, so a failed flush leaves the session
\* needing a rollback.
insert_new_articles(to_insert, table, session) ==
    LET normalized == SelectSeq(to_insert, is_curated)
        rows == [i \in 1..Len(normalized) |-> article_row(normalized[i])]
        returns(n, t) == [raised |-> None, inserted |-> n, table |-> t,
                          session |-> session]
    IN  IF to_insert = <<>> THEN returns(0, table)
        ELSE IF normalized = <<>> THEN returns(0, table)
        ELSE IF flush_violates(rows, table)
        THEN [raised |-> "IntegrityError", inserted |-> 0,
              table |-> table, session |-> "needs_rollback"]
        ELSE returns(Len(rows), table \cup {rows[i] : i \in 1..Len(rows)})

\* storage_service.py 17-109.  A session that needs a rollback raises at the
\* first select (line 52).
batch_insert_articles(storage_articles, table, session) ==
    IF storage_articles = <<>>
    THEN [raised |-> None, inserted |-> 0, table |-> table, session |-> session]
    ELSE IF session = "needs_rollback"
    THEN [raised |-> "PendingRollbackError", inserted |-> 0,
          table |-> table, session |-> session]
    ELSE IF \E i \in 1..Len(storage_articles) :
                check_article_raises(storage_articles[i], table)
    THEN [raised |-> "AttributeError", inserted |-> 0,
          table |-> table, session |-> session]
    ELSE insert_new_articles(
             batch_check_duplicates(storage_articles, table).to_insert,
             table, session)

\* ---- poll_news_job
\* news_job.py 90-100
news_client_failure_stats(exc) ==
    [entities_processed |-> 0, entities_failed |-> NumEntities,
     total_articles_fetched |-> 0, total_articles_inserted |-> 0,
     errors |-> <<[entity |-> "ALL", error |-> exc]>>]
\* news_job.py 103-107
news_initial_stats ==
    [entities_processed |-> 0, entities_failed |-> 0,
     total_articles_fetched |-> 0, total_articles_inserted |-> 0,
     errors |-> <<>>]
\* news_job.py 164-175
news_entity_failed(st, entity_name, exc) ==
    [st EXCEPT !.entities_failed = @ + 1,
               !.errors = Append(@, [entity |-> entity_name, error |-> exc])]

\* a loop that starts the next entity while the batch of the current one
\* is still held for storing
next_entity_overlapping(j) ==
    IF j.entity_index = NumEntities
    THEN [j EXCEPT !.pc = "returned", !.entity_id = 0]
    ELSE [j EXCEPT !.pc = IF j.name = "poll_news" THEN "fetch" ELSE "lookup",
                   !.entity_index = @ + 1, !.entity_id = 0]

\* the for loop moves to the next entity, or the job returns its stats
next_entity(j) ==
    IF j.entity_index = NumEntities
    THEN [j EXCEPT !.pc = "returned", !.storage_articles = <<>>,
                   !.entity_id = 0]
    ELSE [j EXCEPT !.pc = IF j.name = "poll_news" THEN "fetch" ELSE "lookup",
                   !.entity_index = @ + 1, !.storage_articles = <<>>,
                   !.entity_id = 0]

\* news_job.py 86-100: AskNewsClient() raises ValueError (no API key)
NewsClientInitFails ==
    /\ job.name = "poll_news" /\ job.pc = "start" /\ ~job.api_key
    /\ stats' = news_client_failure_stats("ValueError")
    /\ job' = [job EXCEPT !.pc = "returned",
                          !.error_log = Append(@, "news_job_failed")]
    /\ UNCHANGED <<db_session, articles, sentiment_timeseries, entities,
                   schedVars, healthVars, retryVars,
                   serviceVars>>

\* news_job.py 86-107
NewsClientInit ==
    /\ job.name = "poll_news" /\ job.pc = "start" /\ job.api_key
    /\ stats' = news_initial_stats
    /\ job' = [job EXCEPT !.pc = "fetch", !.entity_index = 1]
    /\ UNCHANGED <<db_session, articles, sentiment_timeseries, entities,
                   schedVars, healthVars, retryVars,
                   serviceVars>>

\* news_job.py 113, 164-175: the fetch raises
NewsFetchRaises(exc) ==
    /\ job.name = "poll_news" /\ job.pc = "fetch"
    /\ stats' = news_entity_failed(stats, ENTITY_NAMES[job.entity_index], exc)
    /\ job' = next_entity([job EXCEPT
                  !.fetch_calls = @ + 1,
                  !.error_log = Append(@, "entity_processing_failed")])
    /\ UNCHANGED <<db_session, articles, sentiment_timeseries, entities,
                   schedVars, healthVars, retryVars,
                   serviceVars>>

\* news_job.py 113-150: the fetch returns; an empty list ends the entity
NewsFetchReturns(batch) ==
    /\ job.name = "poll_news" /\ job.pc = "fetch"
    /\ LET k == job.entity_index
           fetched == [job EXCEPT !.fetch_calls = @ + 1,
                                  !.fetched[k] = <<batch>>]
       IN  IF batch = <<>>
           THEN /\ stats' = [stats EXCEPT !.entities_processed = @ + 1]
                /\ job' = next_entity(fetched)
           ELSE /\ stats' = [stats EXCEPT
                                !.total_articles_fetched = @ + Len(batch)]
                /\ job' = [fetched EXCEPT
                              !.pc = "store",
                              !.storage_articles =
                                  transform(batch, ENTITY_NAMES[k])]
    /\ UNCHANGED <<db_session, articles, sentiment_timeseries, entities,
                   schedVars, healthVars, retryVars,
                   serviceVars>>

\* news_job.py 153-175: batch_insert_articles returns or raises
NewsStore ==
    /\ job.name = "poll_news" /\ job.pc = "store"
    /\ LET r == batch_insert_articles(job.storage_articles, articles, db_session)
       IN  /\ articles' = r.table
           /\ db_session' = r.session
           /\ IF r.raised = None
              THEN /\ stats' = [stats EXCEPT
                                   !.total_articles_inserted = @ + r.inserted,
                                   !.entities_processed = @ + 1]
                   /\ job' = next_entity(job)
              ELSE /\ stats' = news_entity_failed(
                                   stats, ENTITY_NAMES[job.entity_index], r.raised)
                   /\ job' = next_entity([job EXCEPT !.error_log =
                                 Append(@, "entity_processing_failed")])
    /\ UNCHANGED <<sentiment_timeseries, entities,
                   schedVars, healthVars, retryVars,
                   serviceVars>>

\* ---- poll_stories_job
\* Python values, each with its type: numbers of type float count halves
\* (PyFloat(1) is 0.5), datetimes count hours
PyDict(items) == [t |-> "dict", v |-> items]
PyList(elems) == [t |-> "list", v |-> elems]
PyStr(chars) == [t |-> "str", v |-> chars]
PyInt(n) == [t |-> "int", v |-> n]
PyFloat(halves) == [t |-> "float", v |-> halves]
PyDatetime(hour) == [t |-> "datetime", v |-> hour]
PyNone == [t |-> "NoneType", v |-> 0]

\* stories as AskNewsClient.fetch_stories emits them (asknews_client.py
\* 162-201): time-series entries carry the keys timestamp and score, threads
\* carry sentiment.
Story1 ==
    PyDict([story_id |-> PyStr("s1"),
          sentiment_timeseries |->
              PyList(<<PyDict([timestamp |-> PyDatetime(1), score |-> PyFloat(2)])>>),
          reddit_threads |-> PyList(<<>>)])
Story2 ==
    PyDict([story_id |-> PyStr("s2"),
          sentiment_timeseries |->
              PyList(<<PyDict([timestamp |-> PyDatetime(1), score |-> PyFloat(2)]),
                     PyDict([timestamp |-> PyDatetime(2), score |-> PyFloat(0)])>>),
          reddit_threads |-> PyList(<<PyDict([sentiment |-> PyFloat(2)])>>)])
StoryLists == {<<>>, <<Story1>>, <<Story1, Story2>>}

\* d.get(key) on a dict: <<>> for None, <<x>> for a value x
Get(d, key) ==
    IF key \in DOMAIN d.v /\ d.v[key].t # "NoneType" THEN <<d.v[key]>> ELSE <<>>
\* d.get(key, default): the default only when the key is missing
GetDefault(d, key, default) ==
    IF key \in DOMAIN d.v THEN Get(d, key) ELSE <<default>>
\* Python truth of an optional value
Truthy(m) ==
    /\ m # <<>>
    /\ CASE m[1].t \in {"int", "float"} -> m[1].v # 0
         [] m[1].t = "str" -> m[1].v # ""
         [] m[1].t = "list" -> m[1].v # <<>>
         [] OTHER -> TRUE
\* a or b
PyOr(a, b) == IF Truthy(a) THEN a ELSE b

\* float(x) raises ValueError or TypeError
float_raises(x) ==
    ~(x.t \in {"int", "float"} \/ (x.t = "str" /\ x.v = "0.5"))
\* float(x), in halves
to_float(x) ==
    CASE x.t = "int" -> 2 * x.v
      [] x.t = "float" -> x.v
      [] OTHER -> 1
\* int(x) raises ValueError or TypeError
int_raises(x) ==
    ~(x.t \in {"int", "float"} \/ (x.t = "str" /\ x.v = "3"))
\* int(x): a float is cut towards zero
to_int(x) ==
    CASE x.t = "int" -> x.v
      [] x.t = "float" -> IF x.v >= 0 THEN x.v \div 2 ELSE -((-x.v) \div 2)
      [] OTHER -> 3
\* datetime.fromisoformat(s.replace("Z", "+00:00")) raises ValueError
fromisoformat_raises(s) == s # "2025-01-01T00:00:00Z"
\* the datetime of the ISO string: hour 1 of the model's clock
fromisoformat(s) == PyDatetime(1)

RECURSIVE SumSeq(_)
SumSeq(xs) == IF xs = <<>> THEN 0 ELSE Head(xs) + SumSeq(Tail(xs))

\* sentiment_service.py 138-164, one entry of sentiment_timeseries: the
\* entry raises (no .get, float() or int() fails), is skipped, or yields
\* a point
entry_point(point) ==
    IF point.t # "dict"
    THEN [raised |-> TRUE, kept |-> FALSE, point |-> NoneDict]
    ELSE
    LET timestamp_str == PyOr(PyOr(Get(point, "timestamp"), Get(point, "time")),
                              Get(point, "date"))
        sentiment == PyOr(Get(point, "sentiment"), Get(point, "sentiment_mean"))
        count == PyOr(Get(point, "article_count"),
                      GetDefault(point, "count", PyInt(1)))
    IN  IF ~(Truthy(timestamp_str) /\ sentiment # <<>>)
        THEN [raised |-> FALSE, kept |-> FALSE, point |-> NoneDict]
        ELSE IF timestamp_str[1].t = "str"
                /\ fromisoformat_raises(timestamp_str[1].v)
        THEN [raised |-> FALSE, kept |-> FALSE, point |-> NoneDict]
        ELSE IF float_raises(sentiment[1]) \/ count = <<>>
        THEN [raised |-> TRUE, kept |-> FALSE, point |-> NoneDict]
        ELSE IF int_raises(count[1])
        THEN [raised |-> TRUE, kept |-> FALSE, point |-> NoneDict]
        ELSE [raised |-> FALSE, kept |-> TRUE,
              point |-> [timestamp |-> IF timestamp_str[1].t = "str"
                                       THEN fromisoformat(timestamp_str[1].v)
                                       ELSE timestamp_str[1],
                         sentiment_mean |-> to_float(sentiment[1]),
                         article_count |-> to_int(count[1])]]

\* sentiment_service.py 176-181, one thread: it raises (no .get), or gives
\* a value or nothing
thread_sentiment(thread) ==
    IF thread.t # "dict" THEN [raised |-> TRUE, value |-> <<>>]
    ELSE LET reddit_sent == PyOr(Get(thread, "sentiment"), Get(thread, "score"))
         IN  [raised |-> FALSE,
              value |-> IF reddit_sent = <<>> \/ float_raises(reddit_sent[1])
                        THEN <<>>
                        ELSE <<to_float(reddit_sent[1])>>]

\* the story id of a mapping, None when it has none
story_id_of(story_data) ==
    IF Get(story_data, "story_id") = <<>> THEN None
    ELSE Get(story_data, "story_id")[1].v

\* sentiment_service.py 129-205, the try block on a mapping: failed when
\* a statement in it raises.  reddit_sentiment is the mean as the pair
\* <<sum, count>>.
try_extract(story_data) ==
    LET timeseries_data == GetDefault(story_data, "sentiment_timeseries",
                                      PyList(<<>>))
        entry_list == IF timeseries_data # <<>> /\ timeseries_data[1].t = "list"
                      THEN timeseries_data[1].v ELSE <<>>
        entries == [i \in 1..Len(entry_list) |-> entry_point(entry_list[i])]
        kept == SelectSeq(entries, LAMBDA e : e.kept)
        reddit_threads == GetDefault(story_data, "reddit_threads", PyList(<<>>))
        thread_list == IF reddit_threads # <<>> /\ reddit_threads[1].t = "list"
                       THEN reddit_threads[1].v ELSE <<>>
        threads == [i \in 1..Len(thread_list) |->
                       thread_sentiment(thread_list[i])]
        present == SelectSeq(threads, LAMBDA x : x.value # <<>>)
        reddit_sentiments == [i \in 1..Len(present) |-> present[i].value[1]]
    IN  [failed |-> \/ \E i \in 1..Len(entries) : entries[i].raised
                    \/ \E i \in 1..Len(threads) : threads[i].raised,
         value |->
            [timeseries |-> [i \in 1..Len(kept) |-> kept[i].point],
             reddit_sentiment |-> IF reddit_sentiments = <<>> THEN NoneDict
                                  ELSE <<SumSeq(reddit_sentiments),
                                         Len(reddit_sentiments)>>,
             reddit_thread_count |-> Len(thread_list),
             story_id |-> story_id_of(story_data),
             has_reddit |-> Len(thread_list) > 0]]

\* sentiment_service.py 215-221: the empty structure
empty_aggregate(story_data) ==
    [timeseries |-> <<>>, reddit_sentiment |-> NoneDict,
     reddit_thread_count |-> 0, story_id |-> story_id_of(story_data),
     has_reddit |-> FALSE]

\* sentiment_service.py 130 and 210: a story that is no mapping has no
\* .get; the AttributeError of the try block is met by another in the
\* except block, which leaves the function
extract_raises(story_data) == story_data.t # "dict"

\* sentiment_service.py 101-221, for a story that is a mapping
extract_story_sentiment(story_data) ==
    IF try_extract(story_data).failed
    THEN empty_aggregate(story_data)
    ELSE try_extract(story_data).value

\* 002_add_unique_constraint_sentiment_timeseries.py 25-34: the columns of
\* uq_sentiment_timeseries_entity_timestamp_period
bucket_key(row) == <<row.entity_id, row.timestamp, row.period>>

\* models.py 107-110: the range check on sentiment_mean, -1 to 1, in halves
sentiment_range_ok(sentiment_mean) == sentiment_mean \in -2..2

\* an INSERT that no unique constraint guards: every statement adds a row
insert_unconstrained(row, table) == table \cup {row}

\* INSERT ... ON CONFLICT DO UPDATE, as the docstring of the function has
\* it: the stored row of the bucket takes the new values
on_conflict_do_update(row, table) ==
    IF \E r \in table : bucket_key(r) = bucket_key(row)
    THEN {IF bucket_key(r) = bucket_key(row) THEN [row EXCEPT !.id = r.id] ELSE r
          : r \in table}
    ELSE table \cup {row}

\* sentiment_service.py 73-75: INSERT ... ON CONFLICT DO NOTHING against
\* the unique constraint on (entity_id, timestamp, period): a row whose
\* bucket is taken is skipped, the stored row is left as it is
on_conflict_do_nothing(row, table) ==
    IF \E r \in table : bucket_key(r) = bucket_key(row)
    THEN table
    ELSE table \cup {row}

\* an except block that returns False without rollback(): the session stays
\* as the failure left it
store_failed_without_rollback(table, session) ==
    [stored |-> FALSE, table |-> table,
     session |-> IF session = "active" THEN "needs_rollback" ELSE session]

\* sentiment_service.py 89-98: the failure is logged, the transaction is
\* rolled back, which leaves the session usable again, and the answer is False
store_failed(table, session) ==
    [stored |-> FALSE, table |-> table, session |-> "active"]

\* sentiment_service.py 20-98. A session that is not usable (pending
\* rollback, connection lost) or a violated check constraint makes
\* execute() raise; every exception is answered by rollback() and False
\* (89-98). Otherwise the function returns True (87), whether or not the
\* statement inserted a row. id is the serial primary key.
store_sentiment_timeseries(entity_id, point, sentiment_data, table, session) ==
    LET row == [id |-> Cardinality(table) + 1,
                entity_id |-> entity_id, timestamp |-> point.timestamp,
                period |-> "hourly", sentiment_mean |-> point.sentiment_mean,
                article_count |-> point.article_count,
                reddit_sentiment |-> sentiment_data.reddit_sentiment,
                reddit_thread_count |-> sentiment_data.reddit_thread_count]
    IN  IF session # "active" \/ ~sentiment_range_ok(row.sentiment_mean)
        THEN store_failed(table, session)
        ELSE [stored |-> TRUE, table |-> on_conflict_do_nothing(row, table),
              session |-> session]

\* sentiment_service.py 75-97 with a timestamp that is no datetime: the
\* driver rejects the parameter, and timestamp.isoformat() in the except
\* block raises AttributeError out of store_sentiment_timeseries
store_raises(point) == point.timestamp.t # "datetime"

\* stories_job.py 182-195: the points of one story; acc carries stats, the
\* table, the session and the exception that left the loop, if any
RECURSIVE store_points(_, _, _, _)
store_points(points, entity_id, sentiment_data, acc) ==
    IF points = <<>> THEN acc
    ELSE IF store_raises(Head(points))
    THEN [acc EXCEPT !.raised = "AttributeError"]
    ELSE LET r == store_sentiment_timeseries(entity_id,
                      [Head(points) EXCEPT !.timestamp = @.v],
                      sentiment_data, acc.table, acc.session)
         IN  store_points(Tail(points), entity_id, sentiment_data,
                 [acc EXCEPT
                     !.stats = IF r.stored
                               THEN [@ EXCEPT !.timeseries_points_stored = @ + 1]
                               ELSE @,
                     !.table = r.table, !.session = r.session])

\* stories_job.py 170-205: the stories of one entity.  An exception of a
\* story is caught at 197; the handler reads story.get (201), which raises
\* for a story that is no mapping and leaves the loop with acc.raised set.
RECURSIVE process_stories(_, _, _)
process_stories(stories, entity_id, acc) ==
    IF stories = <<>> THEN acc
    ELSE IF extract_raises(Head(stories))
    THEN [acc EXCEPT !.raised = "AttributeError"]
    ELSE LET sentiment_data == extract_story_sentiment(Head(stories))
             counted == IF sentiment_data.has_reddit
                        THEN [acc.stats EXCEPT !.stories_with_reddit = @ + 1]
                        ELSE [acc.stats EXCEPT !.stories_without_reddit = @ + 1]
             stored == store_points(sentiment_data.timeseries, entity_id,
                           sentiment_data, [acc EXCEPT !.stats = counted])
         IN  process_stories(Tail(stories), entity_id,
                 [stored EXCEPT !.raised = None,
                                !.story_errors = IF stored.raised = None THEN @
                                                 ELSE @ + 1])

\* stories_job.py 98-107
stories_initial_stats ==
    [total_entities |-> NumEntities, successful |-> 0, failed |-> 0,
     total_stories |-> 0, stories_with_reddit |-> 0,
     stories_without_reddit |-> 0, timeseries_points_stored |-> 0]

\* stories_job.py 112-117: AskNewsClient() raises ValueError (no API key)
StoriesClientInitFails ==
    /\ job.name = "poll_stories" /\ job.pc = "start" /\ ~job.api_key
    /\ stats' = [stories_initial_stats EXCEPT !.failed = NumEntities]
    /\ job' = [job EXCEPT !.pc = "returned",
                          !.error_log = Append(@, "asknews_client_init_failed")]
    /\ UNCHANGED <<db_session, articles, sentiment_timeseries, entities,
                   schedVars, healthVars, retryVars,
                   serviceVars>>

\* stories_job.py 98-120
StoriesClientInit ==
    /\ job.name = "poll_stories" /\ job.pc = "start" /\ job.api_key
    /\ stats' = stories_initial_stats
    /\ job' = [job EXCEPT !.pc = "lookup", !.entity_index = 1]
    /\ UNCHANGED <<db_session, articles, sentiment_timeseries, entities,
                   schedVars, healthVars, retryVars,
                   serviceVars>>

\* a missing entity that is skipped without being counted
entity_not_found_uncounted(st) == st

\* stories_job.py 130-137: the entity has no row; it is counted failed
entity_not_found(st) == [st EXCEPT !.failed = @ + 1]

\* stories_job.py 124-139, 207-215: the Entity select
StoriesEntityLookup ==
    /\ job.name = "poll_stories" /\ job.pc = "lookup"
    /\ IF db_session = "needs_rollback"
       THEN /\ stats' = [stats EXCEPT !.failed = @ + 1]
            /\ job' = next_entity([job EXCEPT !.error_log =
                          Append(@, "entity_processing_failed")])
       ELSE IF ENTITY_NAMES[job.entity_index] \notin entities
       THEN /\ stats' = entity_not_found(stats)
            /\ job' = next_entity(job)
       ELSE /\ stats' = stats
            /\ job' = [job EXCEPT !.pc = "fetch",
                                  !.entity_id = job.entity_index]
    /\ UNCHANGED <<db_session, articles, sentiment_timeseries, entities,
                   schedVars, healthVars, retryVars,
                   serviceVars>>

\* stories_job.py 142-154: the fetch raises
StoriesFetchRaises(exc) ==
    /\ job.name = "poll_stories" /\ job.pc = "fetch"
    /\ stats' = [stats EXCEPT !.failed = @ + 1]
    /\ job' = next_entity([job EXCEPT
                  !.fetch_calls = @ + 1,
                  !.error_log = Append(@, "story_fetch_failed_after_retries")])
    /\ UNCHANGED <<db_session, articles, sentiment_timeseries, entities,
                   schedVars, healthVars, retryVars,
                   serviceVars>>

\* stories_job.py 143-215: the fetch returns and the stories are
\* processed; an exception that leaves the story loop is caught at 207 and
\* counts the entity as failed
StoriesFetchReturns(stories) ==
    /\ job.name = "poll_stories" /\ job.pc = "fetch"
    /\ LET counted == [stats EXCEPT !.successful = @ + 1,
                                    !.total_stories = @ + Len(stories)]
           acc == process_stories(stories, job.entity_id,
                      [stats |-> counted, table |-> sentiment_timeseries,
                       session |-> db_session, raised |-> None,
                       story_errors |-> 0])
       IN  /\ stats' = IF acc.raised = None THEN acc.stats
                       ELSE [acc.stats EXCEPT !.failed = @ + 1]
           /\ sentiment_timeseries' = acc.table
           /\ db_session' = acc.session
           /\ job' = next_entity([job EXCEPT
                         !.fetch_calls = @ + 1,
                         !.fetched[job.entity_index] = <<stories>>,
                         !.error_log =
                             IF acc.raised = None THEN @
                             ELSE Append(@, "entity_processing_failed")])
    /\ UNCHANGED <<articles, entities, schedVars, healthVars, retryVars,
                   serviceVars>>

\* the names seeded into table entities
all_entities == {ENTITY_NAMES[k] : k \in 1..NumEntities}

\* wrapped_job_execution has committed the running row on a fresh session
\* and calls job_func(db_session) (scheduler.py 71)
InitJobs ==
    /\ job \in {[IdleJob EXCEPT !.name = n, !.pc = "start", !.api_key = b]
                : n \in JobNames, b \in BOOLEAN}
    /\ stats = NoneDict
    /\ db_session = "active"
    /\ articles \in {{}, {stored_row(Article22, ENTITY_NAMES[1])}}
    /\ sentiment_timeseries = {}
    /\ entities \in {all_entities, all_entities \ {ENTITY_NAMES[2]}}
    /\ store_calls = <<>>
    /\ extract_call = NoneDict
    /\ NoServiceCall
    /\ now = 0
    /\ scheduler_running = TRUE
    /\ next_execution = 1
    /\ inv = [i \in ExecIds |-> IdleInvocation]
    /\ execution_log = {}
    /\ completion_writes = [i \in ExecIds |-> 0]
    /\ job_last_run = [j \in JobNames |-> NoneTime]
    /\ health_response = NoneDict
    /\ retry = IdleRetry

\* scheduler.py 66-71: the next trigger of a job opens a session of its own
\* and calls job_func(db_session) again; the tables are what the earlier
\* invocations left
NextInvocation(name) ==
    /\ job.pc = "returned"
    /\ job' = [IdleJob EXCEPT !.name = name, !.pc = "start",
                              !.api_key = job.api_key]
    /\ stats' = NoneDict
    /\ db_session' = "active"
    /\ UNCHANGED <<articles, sentiment_timeseries, entities,
                   schedVars, healthVars, retryVars,
                   serviceVars>>

NextJobs ==
    \/ \E name \in JobNames : NextInvocation(name)
    \/ NewsClientInitFails
    \/ NewsClientInit
    \/ \E exc \in FetchErrors : NewsFetchRaises(exc)
    \/ \E batch \in NewsBatches : NewsFetchReturns(batch)
    \/ NewsStore
    \/ StoriesClientInitFails
    \/ StoriesClientInit
    \/ StoriesEntityLookup
    \/ \E exc \in FetchErrors : StoriesFetchRaises(exc)
    \/ \E stories \in StoryLists : StoriesFetchReturns(stories)

SpecJobs == InitJobs /\ [][NextJobs]_vars

(***************************************************************************)
(* The time-series store under sequences of calls (SpecStore): each step   *)
(* is one pass of the point loop of the Stories Job, over one or several   *)
(* invocations, with points as extract_story_sentiment shapes them.        *)
(***************************************************************************)
MaxStoreCalls == 3
StoreEntityIds == {1, 2}
StoreTimestamps == {1, 2}
\* in halves; 3 (1.5) lies outside the range the check constraint allows
StoreSentiments == {0, 1, 3}
StorePoints ==
    {[timestamp |-> t, sentiment_mean |-> m, article_count |-> m + 1]
     : t \in StoreTimestamps, m \in StoreSentiments}
StoreSentimentData == [reddit_sentiment |-> NoneDict, reddit_thread_count |-> 0]

\* stories_job.py 182-195: one point is handed to
\* store_sentiment_timeseries and counted when the call answers True
StorePoint(entity_id, point) ==
    /\ Len(store_calls) < MaxStoreCalls
    /\ LET r == store_sentiment_timeseries(entity_id, point,
                     StoreSentimentData, sentiment_timeseries, db_session)
       IN  /\ sentiment_timeseries' = r.table
           /\ db_session' = r.session
           /\ stats' = IF r.stored
                       THEN [stats EXCEPT !.timeseries_points_stored = @ + 1]
                       ELSE stats
           /\ store_calls' = Append(store_calls,
                  [entity_id |-> entity_id, point |-> point,
                   session |-> db_session, before |-> sentiment_timeseries,
                   stored |-> r.stored, raised |-> None, after |-> r.table,
                   session_after |-> r.session])
    /\ UNCHANGED <<job, articles, entities, schedVars, healthVars, retryVars,
                   extract_call, dedupVars, entityVars>>

\* the connection of the session to the database is lost between two calls
ConnectionLost ==
    /\ Len(store_calls) < MaxStoreCalls
    /\ db_session = "active"
    /\ db_session' = "disconnected"
    /\ UNCHANGED <<job, stats, articles, sentiment_timeseries, entities,
                   store_calls, extract_call, schedVars, healthVars, retryVars,
                   dedupVars, entityVars>>

InitStore ==
    /\ job = IdleJob
    /\ stats = stories_initial_stats
    /\ db_session = "active"
    /\ articles = {}
    /\ sentiment_timeseries = {}
    /\ entities = all_entities
    /\ store_calls = <<>>
    /\ extract_call = NoneDict
    /\ NoServiceCall
    /\ now = 0
    /\ scheduler_running = TRUE
    /\ next_execution = 1
    /\ inv = [i \in ExecIds |-> IdleInvocation]
    /\ execution_log = {}
    /\ completion_writes = [i \in ExecIds |-> 0]
    /\ job_last_run = [j \in JobNames |-> NoneTime]
    /\ health_response = NoneDict
    /\ retry = IdleRetry

NextStore ==
    \/ \E e \in StoreEntityIds, p \in StorePoints : StorePoint(e, p)
    \/ ConnectionLost

SpecStore == InitStore /\ [][NextStore]_vars

(***************************************************************************)
(* poll_news_job over article records with absent optional fields          *)
(* (SpecNews): fetch_news emits None for a field the SDK item lacks        *)
(* (asknews_client.py 100-108); a timestamp string that does not parse is  *)
(* admitted by the contract of the fetch.                                  *)
(***************************************************************************)
ArticleBadTimestamp ==
    [fetched_article("a5", "t5", "u5") EXCEPT !.published_at = "not-a-date"]
ArticleNoSource == [fetched_article("a6", "t6", "u6") EXCEPT !.source_url = None]
ArticleNoSentiment == [fetched_article("a7", "t7", "u7") EXCEPT !.sentiment = <<>>]
ArticleNoPublishedAt ==
    [fetched_article("a8", "t8", "u8") EXCEPT !.published_at = None]
ArticleNoUrl == fetched_article("a9", "t9", None)
ArticleNoExternalId == fetched_article(None, "t10", "u10")
NewsRecordBatches ==
    {<<>>, <<Article11>>, <<ArticleBadTimestamp, Article11>>,
     <<ArticleNoSource, Article22>>, <<ArticleNoSentiment, Article22>>,
     <<ArticleNoPublishedAt, Article11>>, <<ArticleNoUrl, Article11>>,
     <<ArticleNoExternalId, Article22>>, <<ArticleNoTitle, Article22>>}
\* the values of datetime.utcnow() drawn for an invocation, in minutes
NewsClockValues == {0, 75}

InitNews ==
    /\ job \in {[IdleJob EXCEPT !.name = "poll_news", !.pc = "start",
                                !.api_key = b] : b \in BOOLEAN}
    /\ stats = NoneDict
    /\ db_session = "active"
    /\ articles = {}
    /\ sentiment_timeseries = {}
    /\ entities = all_entities
    /\ store_calls = <<>>
    /\ extract_call = NoneDict
    /\ NoServiceCall
    /\ now \in NewsClockValues
    /\ scheduler_running = TRUE
    /\ next_execution = 1
    /\ inv = [i \in ExecIds |-> IdleInvocation]
    /\ execution_log = {}
    /\ completion_writes = [i \in ExecIds |-> 0]
    /\ job_last_run = [j \in JobNames |-> NoneTime]
    /\ health_response = NoneDict
    /\ retry = IdleRetry

NextNews ==
    \/ NewsClientInitFails
    \/ NewsClientInit
    \/ \E exc \in FetchErrors : NewsFetchRaises(exc)
    \/ \E batch \in NewsRecordBatches : NewsFetchReturns(batch)
    \/ NewsStore

SpecNews == InitNews /\ [][NextNews]_vars

(***************************************************************************)
(* poll_stories_job over the story records its contract admits             *)
(* (SpecStories): fetch_stories_from_asknews_with_retry is declared to     *)
(* return a list of records; the job does not check what it is handed.     *)
(***************************************************************************)
\* a story whose entry carries a timestamp that is neither a string nor a
\* datetime: the extraction passes it through (sentiment_service.py 150)
\* and timestamp.isoformat() raises in store_sentiment_timeseries (83, 94)
StoryBadTimestamp ==
    PyDict([story_id |-> PyStr("s5"),
            sentiment_timeseries |->
                PyList(<<PyDict([timestamp |-> PyInt(5),
                                 sentiment |-> PyFloat(1)])>>),
            reddit_threads |-> PyList(<<>>)])
\* a story with an entry that is no mapping: the extraction returns the
\* empty aggregate
StoryBadEntry ==
    PyDict([story_id |-> PyStr("s6"),
            sentiment_timeseries |-> PyList(<<PyStr("entry")>>),
            reddit_threads |-> PyList(<<PyDict([sentiment |-> PyFloat(2)])>>)])
\* a story whose entries carry the keys extract_story_sentiment reads
\* (sentiment_service.py 140-142)
StoryWithPoints ==
    PyDict([story_id |-> PyStr("s7"),
            sentiment_timeseries |->
                PyList(<<PyDict([timestamp |-> PyDatetime(1),
                                 sentiment |-> PyFloat(1),
                                 article_count |-> PyInt(3)]),
                         PyDict([timestamp |-> PyDatetime(2),
                                 sentiment_mean |-> PyFloat(-1)])>>),
            reddit_threads |-> PyList(<<PyDict([sentiment |-> PyFloat(2)])>>)])
ContractStoryLists ==
    {<<>>, <<Story1>>, <<Story2, StoryWithPoints>>,
     <<StoryBadTimestamp, StoryWithPoints>>, <<StoryBadEntry, Story1>>,
     <<PyNone, StoryWithPoints>>, <<Story1, PyStr("story"), Story2>>}

InitStories ==
    /\ job = [IdleJob EXCEPT !.name = "poll_stories", !.pc = "start",
                             !.api_key = TRUE]
    /\ stats = NoneDict
    /\ db_session = "active"
    /\ articles = {}
    /\ sentiment_timeseries = {}
    /\ entities \in {all_entities, all_entities \ {ENTITY_NAMES[2]}}
    /\ store_calls = <<>>
    /\ extract_call = NoneDict
    /\ NoServiceCall
    /\ now = 0
    /\ scheduler_running = TRUE
    /\ next_execution = 1
    /\ inv = [i \in ExecIds |-> IdleInvocation]
    /\ execution_log = {}
    /\ completion_writes = [i \in ExecIds |-> 0]
    /\ job_last_run = [j \in JobNames |-> NoneTime]
    /\ health_response = NoneDict
    /\ retry = IdleRetry

NextStories ==
    \/ StoriesClientInit
    \/ StoriesEntityLookup
    \/ \E exc \in FetchErrors : StoriesFetchRaises(exc)
    \/ \E stories \in ContractStoryLists : StoriesFetchReturns(stories)

SpecStories == InitStories /\ [][NextStories]_vars

(***************************************************************************)
(* One invocation of either job, step by step (SpecSteps): the News Job    *)
(* over NewsBatches, the Stories Job over ContractStoryLists.              *)
(***************************************************************************)
InitSteps ==
    /\ job \in {[IdleJob EXCEPT !.name = n, !.pc = "start", !.api_key = TRUE]
                : n \in JobNames}
    /\ stats = NoneDict
    /\ db_session = "active"
    /\ articles = {}
    /\ sentiment_timeseries = {}
    /\ entities \in {all_entities, all_entities \ {ENTITY_NAMES[2]}}
    /\ store_calls = <<>>
    /\ extract_call = NoneDict
    /\ NoServiceCall
    /\ now = 0
    /\ scheduler_running = TRUE
    /\ next_execution = 1
    /\ inv = [i \in ExecIds |-> IdleInvocation]
    /\ execution_log = {}
    /\ completion_writes = [i \in ExecIds |-> 0]
    /\ job_last_run = [j \in JobNames |-> NoneTime]
    /\ health_response = NoneDict
    /\ retry = IdleRetry

NextSteps ==
    \/ NewsClientInit
    \/ \E exc \in FetchErrors : NewsFetchRaises(exc)
    \/ \E batch \in NewsBatches : NewsFetchReturns(batch)
    \/ NewsStore
    \/ StoriesClientInit
    \/ StoriesEntityLookup
    \/ \E exc \in FetchErrors : StoriesFetchRaises(exc)
    \/ \E stories \in ContractStoryLists : StoriesFetchReturns(stories)

SpecSteps == InitSteps /\ [][NextSteps]_vars

(***************************************************************************)
(* One invocation of wrapped_job_execution around a job body (SpecRun):    *)
(* scheduler.py 71 hands the job the session on which lines 82 and 104     *)
(* commit the audit row, so the commits meet the session as the job left   *)
(* it.  The database stays reachable.                                      *)
(***************************************************************************)
\* scheduler.py 50-71: the running row is committed and job_func is called
InitRun ==
    /\ \E n \in JobNames, b \in BOOLEAN :
          /\ job = [IdleJob EXCEPT !.name = n, !.pc = "start", !.api_key = b]
          /\ inv = [i \in ExecIds |->
                      IF i = 1
                      THEN [pc |-> "job", job_name |-> n, started_at |-> 0,
                            log_entry |-> new_log_entry]
                      ELSE IdleInvocation]
          /\ execution_log =
                {[execution_id |-> 1, job_name |-> n, started_at |-> 0,
                  status |-> "running", completed_at |-> NoneTime,
                  error_message |-> None, metadata_json |-> None]}
    /\ next_execution = 2
    /\ stats = NoneDict
    /\ db_session = "active"
    /\ articles = {}
    /\ sentiment_timeseries = {}
    /\ entities \in {all_entities, all_entities \ {ENTITY_NAMES[2]}}
    /\ store_calls = <<>>
    /\ extract_call = NoneDict
    /\ NoServiceCall
    /\ now = 0
    /\ scheduler_running = TRUE
    /\ completion_writes = [i \in ExecIds |-> 0]
    /\ job_last_run = [j \in JobNames |-> NoneTime]
    /\ health_response = NoneDict
    /\ retry = IdleRetry

\* scheduler.py 71-80: job_func returns its statistics
RunJobReturns ==
    /\ job.pc = "returned"
    /\ JobReturns(1)

\* scheduler.py 82: the commit on a usable session lands
RunCommitSuccessOk ==
    /\ db_session = "active"
    /\ CommitSuccessOk(1)

\* scheduler.py 82, 94-102: the job left the session needing a rollback
\* and commit() raises PendingRollbackError
RunCommitSuccessFails ==
    /\ db_session # "active"
    /\ CommitSuccessFails(1)

\* scheduler.py 104: the handler has not rolled back; commit() raises again
RunCommitFailedFails ==
    /\ db_session # "active"
    /\ CommitFailedFails(1)

NextRun ==
    \/ NewsClientInitFails
    \/ NewsClientInit
    \/ \E exc \in FetchErrors : NewsFetchRaises(exc)
    \/ \E batch \in NewsRecordBatches : NewsFetchReturns(batch)
    \/ NewsStore
    \/ StoriesClientInitFails
    \/ StoriesClientInit
    \/ StoriesEntityLookup
    \/ \E exc \in FetchErrors : StoriesFetchRaises(exc)
    \/ \E stories \in StoryLists : StoriesFetchReturns(stories)
    \/ RunJobReturns
    \/ RunCommitSuccessOk
    \/ RunCommitSuccessFails
    \/ UpdateHealth(1)
    \/ RunCommitFailedFails

SpecRun == InitRun /\ [][NextRun]_vars

(***************************************************************************)
(* extract_story_sentiment as a function of the story record (SpecExtract) *)
(***************************************************************************)
MaxEntries == 2
MaxThreads == 2
\* time-series entries: the keys and values the function accepts, and
\* entries that lack a part or carry a value of another type
Entries ==
    {PyDict([timestamp |-> PyStr("2025-01-01T00:00:00Z"),
             sentiment |-> PyFloat(1), article_count |-> PyInt(3)]),
     PyDict([timestamp |-> PyDatetime(2), sentiment |-> PyFloat(0)]),
     PyDict([time |-> PyDatetime(2), sentiment_mean |-> PyFloat(0),
             count |-> PyInt(2)]),
     PyDict([date |-> PyDatetime(3), sentiment |-> PyFloat(-2),
             article_count |-> PyInt(4)]),
     PyDict([timestamp |-> PyStr("yesterday"), sentiment |-> PyFloat(1)]),
     PyDict([sentiment |-> PyFloat(1)]),
     PyDict([timestamp |-> PyDatetime(1), sentiment |-> PyNone]),
     PyDict([timestamp |-> PyDatetime(1), sentiment |-> PyStr("abc")]),
     PyStr("entry")}
\* Reddit threads: with a value under either key, with a zero, without a
\* value, with a value that is no number, and a thread that is no mapping
Threads ==
    {PyDict([sentiment |-> PyFloat(2)]),
     PyDict([sentiment |-> PyFloat(0)]),
     PyDict([score |-> PyFloat(-1)]),
     PyDict([title |-> PyStr("thread")]),
     PyDict([sentiment |-> PyStr("abc")]),
     PyStr("thread")}
EntryLists == UNION {[1..n -> Entries] : n \in 0..MaxEntries}
ThreadLists == UNION {[1..n -> Threads] : n \in 0..MaxThreads}
\* the story records a call can be handed: mappings with a list of
\* entries or of threads, the example of the specification, mappings whose
\* fields are no lists, and values that are no mapping
ExtractStories ==
    {PyDict([story_id |-> PyStr("s1"), sentiment_timeseries |-> PyList(e),
             reddit_threads |-> PyList(<<>>)]) : e \in EntryLists}
    \cup {PyDict([story_id |-> PyStr("s2"), reddit_threads |-> PyList(t)])
          : t \in ThreadLists}
    \cup {PyDict([story_id |-> PyStr("s3"),
                  sentiment_timeseries |->
                      PyList(<<PyDict([timestamp |-> PyStr("2025-01-01T00:00:00Z"),
                                       sentiment |-> PyFloat(1),
                                       article_count |-> PyInt(3)])>>),
                  reddit_threads |->
                      PyList(<<PyDict([sentiment |-> PyFloat(2)]),
                               PyDict([score |-> PyFloat(0)])>>)]),
           PyDict([story_id |-> PyStr("s4"), sentiment_timeseries |-> PyNone,
                   reddit_threads |-> PyStr("none")]),
           PyDict([headline |-> PyStr("h")]),
           PyNone, PyStr("story"), PyList(<<>>)}

\* sentiment_service.py 129-221: the call returns an aggregate
ExtractReturns ==
    /\ extract_call.pc = "called"
    /\ ~extract_raises(extract_call.input)
    /\ extract_call' = [extract_call EXCEPT
                           !.pc = "returned",
                           !.result = extract_story_sentiment(extract_call.input)]
    /\ UNCHANGED <<job, stats, db_session, articles, sentiment_timeseries,
                   entities, schedVars, healthVars, retryVars, store_calls,
                   dedupVars, entityVars>>

\* sentiment_service.py 207-210: the except block raises in its turn
ExtractRaises ==
    /\ extract_call.pc = "called"
    /\ extract_raises(extract_call.input)
    /\ extract_call' = [extract_call EXCEPT !.pc = "raised",
                                            !.raised = "AttributeError"]
    /\ UNCHANGED <<job, stats, db_session, articles, sentiment_timeseries,
                   entities, schedVars, healthVars, retryVars, store_calls,
                   dedupVars, entityVars>>

InitExtract ==
    /\ extract_call \in {[pc |-> "called", input |-> story,
                          result |-> NoneDict, raised |-> None]
                         : story \in ExtractStories}
    /\ store_calls = <<>>
    /\ NoServiceCall
    /\ job = IdleJob
    /\ stats = NoneDict
    /\ db_session = "active"
    /\ articles = {}
    /\ sentiment_timeseries = {}
    /\ entities = {}
    /\ now = 0
    /\ scheduler_running = TRUE
    /\ next_execution = 1
    /\ inv = [i \in ExecIds |-> IdleInvocation]
    /\ execution_log = {}
    /\ completion_writes = [i \in ExecIds |-> 0]
    /\ job_last_run = [j \in JobNames |-> NoneTime]
    /\ health_response = NoneDict
    /\ retry = IdleRetry

NextExtract ==
    \/ ExtractReturns
    \/ ExtractRaises

SpecExtract == InitExtract /\ [][NextExtract]_vars

(***************************************************************************)
(* The deduplicator as a function of its input and the stored rows         *)
(* (SpecDedup): one call of check_article_exists or batch_check_duplicates *)
(* on a candidate or a batch, against a table the storage step can leave.  *)
(***************************************************************************)
MaxBatchLen == 2
DedupIds == {"a1", "a2", "a3"}
\* "U1" is "u1" in another case
DedupUrls == {"u1", "U1", "u2"}
\* storage_service.py 78-91: a stored row carries the hash of its own URL
DedupRows ==
    {stored_row(fetched_article(i, "t", u), ENTITY_NAMES[1])
     : i \in DedupIds, u \in DedupUrls}
\* models.py 37-45: external_id and url are unique in a stored table
DedupTables ==
    {t \in SUBSET DedupRows :
        \A r1, r2 \in t :
            (r1.external_id = r2.external_id \/ r1.url = r2.url) => r1 = r2}
\* asknews_client.py 100-108: an article as fetched; url can be None
Candidates ==
    {[external_id |-> i, title |-> "t", url |-> u]
     : i \in DedupIds, u \in DedupUrls \cup {None}}
CandidateLists ==
    UNION {[1..n -> Candidates] : n \in 0..MaxBatchLen}
\* news_job.py 142-150: articles in storage format; "Sora" stands for a
\* mention that is no tracked entity
StorageArticles ==
    {transform_article(fetched_article(i, "t", u), e, 0)
     : i \in {"a1", "a2"}, u \in {"u1", "u2"}, e \in {"Claude", "Sora"}}
StorageBatches ==
    UNION {[1..n -> StorageArticles] : n \in 0..MaxBatchLen}

\* deduplication_service.py 28-61
CheckArticleExistsReturns ==
    /\ dedup_call.fn = "check_article_exists" /\ dedup_call.pc = "called"
    /\ ~check_article_raises(dedup_call.input, articles)
    /\ dedup_call' = [dedup_call EXCEPT
                         !.pc = "returned",
                         !.result = check_article_exists(dedup_call.input, articles)]
    /\ UNCHANGED <<job, stats, db_session, articles, sentiment_timeseries,
                   entities, schedVars, healthVars, retryVars, storeVars,
                   writers, entityVars>>

\* deduplication_service.py 54: None has no encode()
CheckArticleExistsRaises ==
    /\ dedup_call.fn = "check_article_exists" /\ dedup_call.pc = "called"
    /\ check_article_raises(dedup_call.input, articles)
    /\ dedup_call' = [dedup_call EXCEPT !.pc = "raised",
                                        !.result = "AttributeError"]
    /\ UNCHANGED <<job, stats, db_session, articles, sentiment_timeseries,
                   entities, schedVars, healthVars, retryVars, storeVars,
                   writers, entityVars>>

\* deduplication_service.py 64-99
BatchCheckDuplicatesReturns ==
    /\ dedup_call.fn = "batch_check_duplicates" /\ dedup_call.pc = "called"
    /\ \A i \in 1..Len(dedup_call.input) :
          ~check_article_raises(dedup_call.input[i], articles)
    /\ dedup_call' = [dedup_call EXCEPT
                         !.pc = "returned",
                         !.result = batch_check_duplicates(dedup_call.input, articles)]
    /\ UNCHANGED <<job, stats, db_session, articles, sentiment_timeseries,
                   entities, schedVars, healthVars, retryVars, storeVars,
                   writers, entityVars>>

\* deduplication_service.py 80-84: an exception of a check leaves the loop
BatchCheckDuplicatesRaises ==
    /\ dedup_call.fn = "batch_check_duplicates" /\ dedup_call.pc = "called"
    /\ \E i \in 1..Len(dedup_call.input) :
          check_article_raises(dedup_call.input[i], articles)
    /\ dedup_call' = [dedup_call EXCEPT !.pc = "raised",
                                        !.result = "AttributeError"]
    /\ UNCHANGED <<job, stats, db_session, articles, sentiment_timeseries,
                   entities, schedVars, healthVars, retryVars, storeVars,
                   writers, entityVars>>

\* storage_service.py 17-109: the call returns the number of rows inserted
BatchInsertReturns ==
    /\ dedup_call.fn = "batch_insert_articles" /\ dedup_call.pc = "called"
    /\ LET r == batch_insert_articles(dedup_call.input, articles, "active")
       IN  /\ r.raised = None
           /\ articles' = r.table
           /\ dedup_call' = [dedup_call EXCEPT !.pc = "returned",
                                               !.result = r.inserted,
                                               !.before = articles]
    /\ UNCHANGED <<job, stats, db_session, sentiment_timeseries,
                   entities, schedVars, healthVars, retryVars, storeVars,
                   writers, entityVars>>

\* storage_service.py 96-97: the commit raises, nothing is inserted
BatchInsertRaises ==
    /\ dedup_call.fn = "batch_insert_articles" /\ dedup_call.pc = "called"
    /\ LET r == batch_insert_articles(dedup_call.input, articles, "active")
       IN  /\ r.raised # None
           /\ articles' = r.table
           /\ dedup_call' = [dedup_call EXCEPT !.pc = "raised",
                                               !.result = r.raised,
                                               !.before = articles]
    /\ UNCHANGED <<job, stats, db_session, sentiment_timeseries,
                   entities, schedVars, healthVars, retryVars, storeVars,
                   writers, entityVars>>

InitDedup ==
    /\ articles \in DedupTables
    /\ dedup_call \in
         {[fn |-> "check_article_exists", pc |-> "called", input |-> c,
           result |-> NoneDict] : c \in Candidates}
         \cup {[fn |-> "batch_check_duplicates", pc |-> "called", input |-> b,
                result |-> NoneDict] : b \in CandidateLists}
         \cup {[fn |-> "batch_insert_articles", pc |-> "called", input |-> b,
                result |-> NoneDict, before |-> {}] : b \in StorageBatches}
    /\ writers = <<>>
    /\ normalize_call = NoneDict
    /\ store_calls = <<>>
    /\ extract_call = NoneDict
    /\ job = IdleJob
    /\ stats = NoneDict
    /\ db_session = "active"
    /\ sentiment_timeseries = {}
    /\ entities = {}
    /\ now = 0
    /\ scheduler_running = TRUE
    /\ next_execution = 1
    /\ inv = [i \in ExecIds |-> IdleInvocation]
    /\ execution_log = {}
    /\ completion_writes = [i \in ExecIds |-> 0]
    /\ job_last_run = [j \in JobNames |-> NoneTime]
    /\ health_response = NoneDict
    /\ retry = IdleRetry

NextDedup ==
    \/ CheckArticleExistsReturns
    \/ CheckArticleExistsRaises
    \/ BatchCheckDuplicatesReturns
    \/ BatchCheckDuplicatesRaises
    \/ BatchInsertReturns
    \/ BatchInsertRaises

SpecDedup == InitDedup /\ [][NextDedup]_vars

(***************************************************************************)
(* Two storage calls at once (SpecWriters): each writer runs                *)
(* batch_insert_articles on a session of its own.  A select of the         *)
(* duplicate filter reads the committed rows; the commit inserts the       *)
(* writer's rows in one transaction, and a row that meets a unique key     *)
(* committed by the other writer fails the transaction.                    *)
(***************************************************************************)
Writers == {1, 2}
\* the external id of Article11 under another URL
Article13 == fetched_article("a1", "t1", "u3")
WriterBatches ==
    {transform(b, ENTITY_NAMES[1])
     : b \in {<<Article11>>, <<Article31>>, <<Article13>>,
              <<Article22, Article11>>, <<Article22>>}}

\* deduplication_service.py 78-91 within storage_service.py 52: one pass of
\* the loop, check_article_exists reading the rows committed so far
WriterChecks(w) ==
    /\ writers[w].pc = "check"
    /\ LET me == writers[w]
           article == me.batch[me.index]
           acc == dedup_step(me.filtered, article,
                             check_article_exists(article, articles))
       IN  writers' = [writers EXCEPT ![w] =
               [me EXCEPT !.filtered = acc,
                          !.index = @ + 1,
                          !.pc = IF me.index = Len(me.batch)
                                 THEN "insert" ELSE "check"]]
    /\ UNCHANGED <<job, stats, db_session, articles, sentiment_timeseries,
                   entities, schedVars, healthVars, retryVars, storeVars,
                   dedup_call, entityVars>>

\* storage_service.py 54-109: the rest of the call; the commit either
\* inserts all rows of the writer or raises IntegrityError
WriterInserts(w) ==
    /\ writers[w].pc = "insert"
    /\ LET r == insert_new_articles(writers[w].filtered.to_insert, articles,
                                    "active")
       IN  /\ articles' = r.table
           /\ writers' = [writers EXCEPT ![w] =
                  [@ EXCEPT !.pc = IF r.raised = None THEN "returned"
                                   ELSE "raised",
                            !.raised = r.raised,
                            !.inserted = r.inserted,
                            !.seen = articles]]
    /\ UNCHANGED <<job, stats, db_session, sentiment_timeseries,
                   entities, schedVars, healthVars, retryVars, storeVars,
                   dedup_call, entityVars>>

InitWriters ==
    /\ writers \in
         [Writers -> {[pc |-> "check", batch |-> b, index |-> 1,
                       filtered |-> [to_insert |-> <<>>,
                                     duplicates_skipped |-> 0],
                       raised |-> None, inserted |-> 0, seen |-> {}]
                      : b \in WriterBatches}]
    /\ articles \in {{}, {stored_row(Article22, ENTITY_NAMES[1])}}
    /\ dedup_call = NoneDict
    /\ normalize_call = NoneDict
    /\ store_calls = <<>>
    /\ extract_call = NoneDict
    /\ job = IdleJob
    /\ stats = NoneDict
    /\ db_session = "active"
    /\ sentiment_timeseries = {}
    /\ entities = all_entities
    /\ now = 0
    /\ scheduler_running = TRUE
    /\ next_execution = 1
    /\ inv = [i \in ExecIds |-> IdleInvocation]
    /\ execution_log = {}
    /\ completion_writes = [i \in ExecIds |-> 0]
    /\ job_last_run = [j \in JobNames |-> NoneTime]
    /\ health_response = NoneDict
    /\ retry = IdleRetry

NextWriters ==
    \/ \E w \in Writers : WriterChecks(w)
    \/ \E w \in Writers : WriterInserts(w)

SpecWriters == InitWriters /\ [][NextWriters]_vars

(***************************************************************************)
(* The entity normalizer as a function of the mention (SpecEntity)         *)
(***************************************************************************)
MaxMentionLen == 3
MentionAlphabet == {"v", "0", " ", "G", "z"}
\* entity_service.py 30-34 and mentions of the shapes an article can carry
NamedMentions ==
    {<<"O","p","e","n","A","I"," ","G","P","T","-","4","o">>,
     <<"C","l","a","u","d","e"," ","3",".","5"," ","S","o","n","n","e","t">>,
     <<"U","n","k","n","o","w","n"," ","M","o","d","e","l">>,
     <<" "," ","C","O","P","I","L","O","T"," ">>,
     <<"R","e","p","l","i","t">>,
     <<"m","i","x","t","r","a","l"," ","8","x","7","b">>,
     <<"S","o","r","a">>,
     <<"G","i","t","H","u","b"," ","C","o","p","i","l","o","t"," ","v","s",
       " ","C","l","a","u","d","e">>}
\* str.upper() on one character, for mentions written in capitals
upper_char(c) ==
    CASE c = "a" -> "A" []
         c = "b" -> "B" []
         c = "c" -> "C" []
         c = "d" -> "D" []
         c = "e" -> "E" []
         c = "f" -> "F" []
         c = "g" -> "G" []
         c = "h" -> "H" []
         c = "i" -> "I" []
         c = "j" -> "J" []
         c = "k" -> "K" []
         c = "l" -> "L" []
         c = "m" -> "M" []
         c = "n" -> "N" []
         c = "o" -> "O" []
         c = "p" -> "P" []
         c = "q" -> "Q" []
         c = "r" -> "R" []
         c = "s" -> "S" []
         c = "t" -> "T" []
         c = "u" -> "U" []
         c = "v" -> "V" []
         c = "w" -> "W" []
         c = "x" -> "X" []
         c = "y" -> "Y" []
         c = "z" -> "Z"
      [] OTHER -> c
\* news_job.py 142-150: the mention the News Job passes is the canonical
\* name; here also in capitals and with whitespace around it
CanonicalMentions(k) ==
    LET name == ENTITY_VARIATIONS[k].chars
    IN  {name,
         [i \in 1..Len(name) |-> upper_char(name[i])],
         <<" ">> \o name \o <<" ", " ">>}
Mentions ==
    NamedMentions
    \cup UNION {CanonicalMentions(k) : k \in 1..Len(ENTITY_VARIATIONS)}
    \cup UNION {[1..n -> MentionAlphabet] : n \in 0..MaxMentionLen}

\* entity_service.py 43-63: a canonical name is returned
NormalizeReturnsName ==
    /\ normalize_call.pc = "called"
    /\ normalize_entity_name(normalize_call.input) # None
    /\ normalize_call' = [normalize_call EXCEPT
                             !.pc = "returned",
                             !.result = normalize_entity_name(normalize_call.input)]
    /\ UNCHANGED <<job, stats, db_session, articles, sentiment_timeseries,
                   entities, schedVars, healthVars, retryVars, storeVars,
                   dedupVars>>

\* entity_service.py 65-70: no entity matched
NormalizeReturnsNone ==
    /\ normalize_call.pc = "called"
    /\ normalize_entity_name(normalize_call.input) = None
    /\ normalize_call' = [normalize_call EXCEPT !.pc = "returned",
                                                !.result = None]
    /\ UNCHANGED <<job, stats, db_session, articles, sentiment_timeseries,
                   entities, schedVars, healthVars, retryVars, storeVars,
                   dedupVars>>

InitEntity ==
    /\ normalize_call \in {[pc |-> "called", input |-> m, result |-> None]
                           : m \in Mentions}
    /\ dedup_call = NoneDict
    /\ writers = <<>>
    /\ store_calls = <<>>
    /\ extract_call = NoneDict
    /\ job = IdleJob
    /\ stats = NoneDict
    /\ db_session = "active"
    /\ articles = {}
    /\ sentiment_timeseries = {}
    /\ entities = {}
    /\ now = 0
    /\ scheduler_running = TRUE
    /\ next_execution = 1
    /\ inv = [i \in ExecIds |-> IdleInvocation]
    /\ execution_log = {}
    /\ completion_writes = [i \in ExecIds |-> 0]
    /\ job_last_run = [j \in JobNames |-> NoneTime]
    /\ health_response = NoneDict
    /\ retry = IdleRetry

NextEntity ==
    \/ NormalizeReturnsName
    \/ NormalizeReturnsNone

SpecEntity == InitEntity /\ [][NextEntity]_vars

(***************************************************************************)
(* Claims about the scheduler, the audit log and the health map (Spec)     *)
(***************************************************************************)
TerminalStatuses == {"success", "failed"}
Row(i) == CHOOSE r \in RowsOf(i) : TRUE
\* the interval the claims name for each job, in minutes
ClaimedInterval(job_name) ==
    IF job_name = "poll_news" THEN NewsIntervalMinutes ELSE StoriesIntervalMinutes

\* C1: every invocation that committed its `running` row and has ended
\* (returned, raised or was cancelled) has that row in status success or
\* failed.
C1_NoRunningFinalState ==
    \A i \in ExecIds :
        (inv[i].pc \in EndedPcs /\ RowsOf(i) # {})
            => \A r \in RowsOf(i) : r.status \in TerminalStatuses

\* C2: the audit log holds exactly one row per started invocation, under the
\* invocation's own execution id and created at its start, and the completion
\* fields of the row of an invocation that has ended were written exactly
\* once.
C2_OneRowWrittenOnce ==
    \A i \in ExecIds :
        /\ inv[i].pc = "idle" => RowsOf(i) = {}
        /\ inv[i].pc # "idle" =>
              /\ Cardinality(RowsOf(i)) = 1
              /\ Row(i).job_name = inv[i].job_name
              /\ Row(i).started_at = inv[i].started_at
        /\ completion_writes[i] <= 1
        /\ inv[i].pc \in EndedPcs => completion_writes[i] = 1

\* C3: a step that changes job_last_run is line 85 of an invocation whose
\* row is committed as success; it sets the entry of that invocation's own
\* job to that invocation's completion time and changes no other entry.  No
\* step of an invocation on its failure path changes the map.
C3_Step ==
    /\ job_last_run' # job_last_run =>
          \E i \in ExecIds :
              /\ inv[i].pc = "update_health" /\ inv'[i].pc = "done"
              /\ RowsOf(i) # {}
              /\ Row(i).status = "success"
              /\ job_last_run'[inv[i].job_name] = Row(i).completed_at
              /\ \A j \in JobNames \ {inv[i].job_name} :
                    job_last_run'[j] = job_last_run[j]
    /\ \A i \in ExecIds :
          (inv'[i] # inv[i] /\ inv'[i].log_entry.status = "failed")
              => job_last_run' = job_last_run
C3_LastRunWrittenOnlyBySuccess == [][C3_Step]_vars

\* a poll_news success has set its entry while a poll_stories invocation
\* ended failed and left poll_stories without an entry
C3_Witness ==
    \E i, k \in ExecIds :
        /\ inv[i].job_name = "poll_news" /\ inv[i].pc = "done"
        /\ inv[i].log_entry.status = "success"
        /\ inv[i].log_entry.completed_at > 0
        /\ job_last_run["poll_news"] = inv[i].log_entry.completed_at
        /\ inv[k].job_name = "poll_stories" /\ inv[k].pc = "done"
        /\ inv[k].log_entry.status = "failed"
        /\ job_last_run["poll_stories"] = NoneTime

\* invocations of a job that returned after line 85
SuccessfulRuns(job_name) ==
    {i \in ExecIds : /\ inv[i].job_name = job_name
                     /\ inv[i].pc = "done"
                     /\ inv[i].log_entry.status = "success"}
HasSucceeded(job_name) == SuccessfulRuns(job_name) # {}
LastSuccess(job_name) ==
    LET ts == {inv[i].log_entry.completed_at : i \in SuccessfulRuns(job_name)}
    IN  CHOOSE t \in ts : \A u \in ts : u <= t
\* the answer a health query would get in the current state
CurrentHealth == get_job_health(now, job_last_run)

C4_OverdueIffElapsedExceedsTwiceInterval ==
    health_response # NoneDict =>
        \A j \in JobNames :
            health_response.body.jobs[j].overdue <=>
                /\ job_last_run[j] # NoneTime
                /\ now - job_last_run[j] > 2 * ClaimedInterval(j)

\* poll_news at T + 31 minutes is overdue, poll_stories at T + 30 is not
C4_Witness ==
    /\ health_response # NoneDict
    /\ job_last_run["poll_news"] # NoneTime
    /\ now - job_last_run["poll_news"] = 31
    /\ health_response.body.jobs["poll_news"].overdue
    /\ job_last_run["poll_stories"] # NoneTime
    /\ now - job_last_run["poll_stories"] = 30
    /\ ~health_response.body.jobs["poll_stories"].overdue

\* C5: healthy is the conjunction over the registered jobs of (not overdue),
\* and the endpoint answers 503 iff healthy is false, 200 otherwise.
C5_HealthyIsConjunctionAnd503 ==
    health_response # NoneDict =>
        /\ DOMAIN health_response.body.jobs = JobNames
        /\ health_response.body.healthy <=>
              \A j \in JobNames : ~health_response.body.jobs[j].overdue
        /\ health_response.status_code = 503 <=> ~health_response.body.healthy
        /\ health_response.status_code = 200 <=> health_response.body.healthy

\* only the first registered job is overdue, and the answer is 503
C5_Witness ==
    /\ health_response # NoneDict
    /\ health_response.body.jobs["poll_news"].overdue
    /\ ~health_response.body.jobs["poll_stories"].overdue
    /\ job_last_run["poll_stories"] # NoneTime
    /\ ~health_response.body.healthy
    /\ health_response.status_code = 503

(***************************************************************************)
(* Claims about the retry wrappers (SpecRetry)                             *)
(***************************************************************************)
\* the error kinds the claims call transient: timeout and connection failure
TransientErrors == {"TimeoutError", "ConnectionError", "ConnectionResetError"}
Attempts == Len(retry.outcomes)

\* C9: at most 3 attempts; when all 3 raise a transient error the call
\* raises the error of the third attempt; a successful attempt is the last
\* one and its result is what the call returns; the call returns only what
\* an attempt returned.
C9_AtMostThreeAttemptsLastErrorRaised ==
    /\ Attempts <= 3
    /\ retry.attempt_number <= 3
    /\ (/\ Attempts = 3
        /\ \A k \in 1..3 : retry.outcomes[k].type \in TransientErrors)
          => /\ retry.pc = "raised"
             /\ retry.result = retry.outcomes[3]
    /\ \A k \in 1..Attempts :
          retry.outcomes[k].type = "ok"
              => /\ k = Attempts
                 /\ retry.pc = "returned"
                 /\ retry.result = retry.outcomes[k]
    /\ retry.pc = "returned"
          => Attempts >= 1 /\ retry.outcomes[Attempts].type = "ok"

\* three transient errors of three classes; the third one reaches the caller
C9_Witness ==
    /\ retry.pc = "raised"
    /\ Attempts = 3
    /\ retry.outcomes[1].type = "TimeoutError"
    /\ retry.outcomes[2].type = "ConnectionResetError"
    /\ retry.outcomes[3].type = "ConnectionError"
    /\ retry.result = [type |-> "ConnectionError", attempt |-> 3]

\* C10: an attempt is followed by another one only if it raised a transient
\* error; transient errors on attempts 1 and 2 and a success on attempt 3
\* return the attempt-3 result after exactly 2 waits; any other error ends
\* the call with that error, with no wait after it and no further attempt.
C10_OnlyTransientErrorsRetried ==
    /\ \A k \in 1..(Attempts - 1) : retry.outcomes[k].type \in TransientErrors
    /\ (/\ Attempts = 3
        /\ retry.outcomes[1].type \in TransientErrors
        /\ retry.outcomes[2].type \in TransientErrors
        /\ retry.outcomes[3].type = "ok")
          => /\ retry.pc = "returned"
             /\ retry.result = [type |-> "ok", attempt |-> 3]
             /\ Len(retry.sleeps) = 2
    /\ \A k \in 1..Attempts :
          retry.outcomes[k].type \notin (TransientErrors \cup {"ok"})
              => /\ k = Attempts
                 /\ retry.pc = "raised"
                 /\ retry.result = retry.outcomes[k]
                 /\ Len(retry.sleeps) = k - 1

\* timeout, connection failure, then a result: returned after two waits
C10_Witness ==
    /\ retry.pc = "returned"
    /\ Attempts = 3
    /\ retry.outcomes[1].type = "TimeoutError"
    /\ retry.outcomes[2].type = "ConnectionError"
    /\ retry.result = [type |-> "ok", attempt |-> 3]
    /\ Len(retry.sleeps) = 2

\* the floor and ceiling C11 names for each wrapper, in seconds
ClaimedFloor == IF retry.fn = "fetch_from_asknews_with_retry" THEN 1 ELSE 2
ClaimedCeiling == IF retry.fn = "fetch_from_asknews_with_retry" THEN 16 ELSE 10
ClampedWait(k) ==
    LET raw == 2 ^ (k - 1) IN
    IF raw < ClaimedFloor THEN ClaimedFloor
    ELSE IF raw > ClaimedCeiling THEN ClaimedCeiling
    ELSE raw

JobReturned == job.pc = "returned"
Entities == 1..NumEntities
\* entity k's fetch returned a list
Fetched(k) == job.fetched[k] # <<>>
FetchResult(k) == job.fetched[k][1]
\* a fetched batch that the store accepts when it is the only one: no null
\* field, no external id or URL twice
WellFormedBatch(batch) ==
    /\ \A i \in 1..Len(batch) :
          /\ batch[i].external_id # None
          /\ batch[i].title # None
          /\ batch[i].url # None
    /\ \A i, j \in 1..Len(batch) :
          i # j => /\ batch[i].external_id # batch[j].external_id
                   /\ batch[i].url # batch[j].url
\* the article is in the store, under its own id or as a duplicate of its URL
ArticlePersisted(a) ==
    \E r \in articles : r.external_id = a.external_id \/ r.url = a.url
ReportedFailed(k) ==
    \E i \in 1..Len(stats.errors) : stats.errors[i].entity = ENTITY_NAMES[k]
PointPersisted(k, point) ==
    \E r \in sentiment_timeseries :
        r.entity_id = k /\ r.timestamp = point.timestamp.v

\* C7: when a job with a working client has returned, every entity whose own
\* fetch returned well-formed data is counted as processed, is not reported
\* failed and has everything fetched for it persisted, whatever happened to
\* the other entities; every entity is counted once.
C7_FailureOfOneEntityLeavesOthersProcessed ==
    (JobReturned /\ job.api_key) =>
        IF job.name = "poll_news"
        THEN /\ stats.entities_processed + stats.entities_failed = NumEntities
             /\ \A k \in Entities :
                   (Fetched(k) /\ WellFormedBatch(FetchResult(k)))
                       => /\ ~ReportedFailed(k)
                          /\ \A i \in 1..Len(FetchResult(k)) :
                                ArticlePersisted(FetchResult(k)[i])
             /\ stats.entities_processed >=
                   Cardinality({k \in Entities :
                       Fetched(k) /\ WellFormedBatch(FetchResult(k))})
        ELSE /\ stats.successful + stats.failed = NumEntities
             /\ stats.successful = Cardinality({k \in Entities : Fetched(k)})
             /\ \A k \in Entities :
                   Fetched(k) =>
                       \A i \in 1..Len(FetchResult(k)) :
                           LET points ==
                                   extract_story_sentiment(FetchResult(k)[i]).timeseries
                           IN  \A n \in 1..Len(points) :
                                   PointPersisted(k, points[n])

\* the client could not be constructed and the job has returned
ShortCircuited == JobReturned /\ ~job.api_key
NothingFetched ==
    /\ job.fetch_calls = 0
    /\ \A k \in Entities : ~Fetched(k)
\* entries of the returned statistics that carry the construction error
ConstructionErrors ==
    IF "errors" \in DOMAIN stats
    THEN {i \in 1..Len(stats.errors) : stats.errors[i].error = "ValueError"}
    ELSE {}

\* C8: after a failed client construction the returned statistics of either
\* job mark all N entities failed, report nothing fetched and
\* nothing stored, and carry the construction error exactly once; no fetch
\* was issued.
C8_ShortCircuitSurfacesErrorOnceInStats ==
    ShortCircuited =>
        /\ NothingFetched
        /\ Cardinality(ConstructionErrors) = 1
        /\ IF job.name = "poll_news"
           THEN /\ stats.entities_failed = NumEntities
                /\ stats.entities_processed = 0
                /\ stats.total_articles_fetched = 0
                /\ stats.total_articles_inserted = 0
           ELSE /\ stats.failed = NumEntities
                /\ stats.successful = 0
                /\ stats.total_stories = 0
                /\ stats.timeseries_points_stored = 0

(***************************************************************************)
(* Claims about the time-series store (SpecStore)                          *)
(***************************************************************************)
Calls == 1..Len(store_calls)
Bucket(c) == <<c.entity_id, c.point.timestamp, "hourly">>
RowsOfBucket(table, b) ==
    {r \in table : <<r.entity_id, r.timestamp, r.period>> = b}
BucketTaken(c) == RowsOfBucket(c.before, Bucket(c)) # {}

\* C12: whatever calls of store_sentiment_timeseries have been made, the
\* table holds at most one row per (entity, timestamp, period), and a bucket
\* delivered twice holds exactly one row, the one stored first.
C12_OneRowPerBucket ==
    /\ \A r1, r2 \in sentiment_timeseries :
          <<r1.entity_id, r1.timestamp, r1.period>>
            = <<r2.entity_id, r2.timestamp, r2.period>> => r1 = r2
    /\ \A i, j \in Calls :
          (i < j /\ Bucket(store_calls[i]) = Bucket(store_calls[j])
             /\ store_calls[i].after # store_calls[i].before)
          => /\ Cardinality(RowsOfBucket(sentiment_timeseries,
                                         Bucket(store_calls[i]))) = 1
             /\ store_calls[j].after = store_calls[j].before

\* the same bucket was delivered twice with different values while the
\* database was reachable
C12_Witness ==
    \E i, j \in Calls :
        /\ i < j
        /\ Bucket(store_calls[i]) = Bucket(store_calls[j])
        /\ store_calls[i].point.sentiment_mean = 0
        /\ store_calls[j].point.sentiment_mean = 1
        /\ store_calls[i].stored /\ store_calls[j].stored
        /\ Cardinality(sentiment_timeseries) = 1

\* C13: store_sentiment_timeseries answers "stored" exactly when the call
\* inserted a new row, a point for a bucket that is already stored is
\* answered "not newly stored", and timeseries_points_stored equals the
\* number of rows inserted.
C13_StoredOnlyWhenRowInserted ==
    /\ \A i \in Calls :
          /\ store_calls[i].stored => store_calls[i].after # store_calls[i].before
          /\ store_calls[i].raised = None
    /\ stats.timeseries_points_stored = Cardinality(sentiment_timeseries)

\* the write of call c fails for a reason other than the dedup key: the
\* connection was lost, or the row violates the range check
WriteFails(c) ==
    c.session = "disconnected" \/ c.point.sentiment_mean > 2

C15_ArticlesUniqueAndAppendOnly ==
    /\ [](\A r1, r2 \in articles :
            (r1.external_id = r2.external_id \/ r1.url_hash = r2.url_hash)
            => r1 = r2)
    /\ [][/\ articles \subseteq articles'
          /\ articles' # articles
               => job.name = "poll_news" /\ job.pc = "store"]_vars

\* a later News Job invocation met stored rows, skipped or lost part of what
\* it fetched, and the table holds several rows
C15_Witness ==
    /\ job.name = "poll_news" /\ job.pc = "returned"
    /\ Cardinality(articles) = 2
    /\ stats.total_articles_inserted = 1
    /\ stats.total_articles_fetched > stats.total_articles_inserted

\* C16: when the News Job stores a batch, two of its articles with the same
\* URL and different external ids leave exactly one row under that URL, the
\* call does not raise, and every other article of the batch is in the
\* store afterwards; likewise when a row under the URL is stored already.
C16_SameUrlDeduplicatedWithoutRaising ==
    [][(job.name = "poll_news" /\ job.pc = "store")
       => LET batch == job.storage_articles
              SameUrl(i) ==
                  \/ \E j \in 1..Len(batch) :
                        /\ batch[j].url = batch[i].url
                        /\ batch[j].external_id # batch[i].external_id
                  \/ \E r \in articles :
                        /\ r.url = batch[i].url
                        /\ r.external_id # batch[i].external_id
          IN  (\E i \in 1..Len(batch) : SameUrl(i))
              => /\ stats'.entities_failed = stats.entities_failed
                 /\ \A i \in 1..Len(batch) :
                       Cardinality({r \in articles' : r.url = batch[i].url}) = 1
      ]_vars

IdOrUrlStored(candidate) ==
    \E r \in articles :
        \/ r.external_id = candidate.external_id
        \/ candidate.url # None /\ r.url = candidate.url

\* C17: check_article_exists answers True exactly when a stored article
\* has the candidate's external id or the candidate's URL, character for
\* character (the hash is taken over the raw URL, so a URL in another case
\* is another URL); a call that raises has no such article.
C17_ExistsIffIdOrRawUrlHashStored ==
    dedup_call # NoneDict /\ dedup_call.fn = "check_article_exists"
    => /\ dedup_call.pc = "returned"
            => (dedup_call.result <=> IdOrUrlStored(dedup_call.input))
       /\ dedup_call.pc = "raised" => ~IdOrUrlStored(dedup_call.input)

\* the candidate's URL is stored in another case only, under another id, and
\* the call answered False
C17_Witness ==
    /\ dedup_call # NoneDict
    /\ dedup_call.fn = "check_article_exists" /\ dedup_call.pc = "returned"
    /\ dedup_call.input.url = "u1"
    /\ \E r \in articles : r.url = "U1"
    /\ \E r \in articles : r.url = "u2"
    /\ dedup_call.result = FALSE

\* C18: batch_check_duplicates splits its input in two: the articles of
\* to_insert and the duplicates counted add up to the input, and to_insert
\* is the input with the duplicates taken out, in the order of the input.
C18_BatchPartitionKeepsOrder ==
    (/\ dedup_call # NoneDict
     /\ dedup_call.fn = "batch_check_duplicates"
     /\ dedup_call.pc = "returned")
    => LET input == dedup_call.input
           to_insert == dedup_call.result.to_insert
           kept == {i \in 1..Len(input) : ~IdOrUrlStored(input[i])}
       IN  /\ Len(to_insert) + dedup_call.result.duplicates_skipped = Len(input)
           /\ Len(to_insert) = Cardinality(kept)
           /\ \A n \in 1..Len(to_insert) :
                 \E i \in kept :
                     /\ to_insert[n] = input[i]
                     /\ Cardinality({j \in kept : j < i}) = n - 1

\* a batch of two different articles, neither of them stored, against a
\* table with rows: both are kept, in their order
C18_Witness ==
    /\ dedup_call # NoneDict
    /\ dedup_call.fn = "batch_check_duplicates" /\ dedup_call.pc = "returned"
    /\ Len(dedup_call.input) = 2
    /\ dedup_call.input[1] # dedup_call.input[2]
    /\ articles # {}
    /\ dedup_call.result.to_insert = dedup_call.input
    /\ dedup_call.result.duplicates_skipped = 0

WriterDone(w) == writers[w].pc \in {"returned", "raised"}
\* both writers got an article with the same external id or the same URL
\* through their duplicate filters
SharedKey(a, b) == a.external_id = b.external_id \/ a.url = b.url
WritersCollide ==
    \E i \in 1..Len(writers[1].filtered.to_insert),
       j \in 1..Len(writers[2].filtered.to_insert) :
        SharedKey(writers[1].filtered.to_insert[i],
                  writers[2].filtered.to_insert[j])

\* C19: two writers that run check and insert at the same time for one
\* external id or one URL never leave two rows under that key, whatever the
\* order of their steps: when both got the key through their checks, the
\* commit that comes second is rejected with IntegrityError and adds no row.
C19_ConcurrentWritersKeepKeysUnique ==
    /\ writers # <<>>
        => \A r1, r2 \in articles :
               SharedKey(r1, r2) => r1 = r2
    /\ (writers # <<>> /\ WriterDone(1) /\ WriterDone(2) /\ WritersCollide)
        => \E w \in Writers :
               /\ writers[w].raised = "IntegrityError"
               /\ writers[w].inserted = 0
               /\ writers[3 - w].raised = None

\* both writers checked article a1 before either committed; one commit
\* stored it, the other was rejected
C19_Witness ==
    /\ writers # <<>>
    /\ WriterDone(1) /\ WriterDone(2)
    /\ writers[1].batch[1].external_id = "a1"
    /\ writers[2].batch[1].external_id = "a3"
    /\ writers[1].raised = None /\ writers[1].inserted = 1
    /\ writers[2].raised = "IntegrityError"
    /\ Cardinality({r \in articles : r.url = "u1"}) = 1

(***************************************************************************)
(* Claims about the entity normalizer (SpecEntity)                         *)
(***************************************************************************)
\* part occurs in whole as a run of adjacent characters
Within(part, whole) ==
    \E i \in 0..Len(whole) :
        /\ i + Len(part) <= Len(whole)
        /\ \A j \in 1..Len(part) : whole[i + j] = part[j]

\* the trimmed, lowercased mention equals the lowercased name of entry k or
\* one of its variations contains it or is contained in it
MentionFits(mention, k) ==
    LET m == lower(strip(mention))
        e == ENTITY_VARIATIONS[k]
    IN  \/ m = lower(e.chars)
        \/ \E v \in 1..Len(e.variations) :
              \/ Within(m, lower(e.variations[v]))
              \/ Within(lower(e.variations[v]), m)

\* C20: when normalize_entity_name returns a canonical name, the mention
\* fits that entity (equal to its name, or containing or contained in one
\* of its variations, trimmed and without regard to case); when the mention
\* fits no entity the function returns None.
C20_NormalizedNameFitsMention ==
    (normalize_call # NoneDict /\ normalize_call.pc = "returned")
    => /\ normalize_call.result # None
            => \E k \in 1..Len(ENTITY_VARIATIONS) :
                   /\ ENTITY_VARIATIONS[k].canonical_name = normalize_call.result
                   /\ MentionFits(normalize_call.input, k)
       /\ (\A k \in 1..Len(ENTITY_VARIATIONS) :
               ~MentionFits(normalize_call.input, k))
            => normalize_call.result = None

\* "  COPILOT " is contained in variations of GitHub Copilot only
C20_Witness ==
    /\ normalize_call # NoneDict /\ normalize_call.pc = "returned"
    /\ normalize_call.input = <<" "," ","C","O","P","I","L","O","T"," ">>
    /\ normalize_call.result = "GitHub Copilot"

FittingEntries(mention) ==
    {k \in 1..Len(ENTITY_VARIATIONS) : MentionFits(mention, k)}

\* C21: when a mention fits several canonical entities, the one returned
\* is the first of them in the order of the table, whatever the length of
\* the matches.
C21_FirstEntityInTableOrderWins ==
    (/\ normalize_call # NoneDict
     /\ normalize_call.pc = "returned"
     /\ FittingEntries(normalize_call.input) # {})
    => LET first == CHOOSE k \in FittingEntries(normalize_call.input) :
                        \A j \in FittingEntries(normalize_call.input) : k <= j
       IN  normalize_call.result = ENTITY_VARIATIONS[first].canonical_name

\* "GitHub Copilot vs Claude" contains the whole name of GitHub Copilot,
\* the ninth entry, and the shorter "claude" of the second: Claude wins
C21_Witness ==
    /\ normalize_call # NoneDict /\ normalize_call.pc = "returned"
    /\ Len(normalize_call.input) = 24
    /\ {2, 9} \subseteq FittingEntries(normalize_call.input)
    /\ normalize_call.result = "Claude"

\* C22: a mention that is a canonical name of the table, in capitals or
\* with whitespace around it as well, is normalized to that canonical name,
\* never to another entity and never to None (so an article the News Job
\* tags with a tracked entity is not filtered as non-curated).
C22_CanonicalNameNormalizesToItself ==
    (normalize_call # NoneDict /\ normalize_call.pc = "returned")
    => \A k \in 1..Len(ENTITY_VARIATIONS) :
           normalize_call.input \in CanonicalMentions(k)
           => normalize_call.result = ENTITY_VARIATIONS[k].canonical_name

\* " GitHub Copilot  " came back as GitHub Copilot, the ninth entry
C22_Witness ==
    /\ normalize_call # NoneDict /\ normalize_call.pc = "returned"
    /\ normalize_call.input \in CanonicalMentions(9)
    /\ Head(normalize_call.input) = " "
    /\ normalize_call.result = "GitHub Copilot"

\* the batch without the articles whose entity is no tracked entity
Recognized(a) == a.entity # "Sora"
InsertCallDone ==
    /\ dedup_call # NoneDict
    /\ dedup_call.fn = "batch_insert_articles"
    /\ dedup_call.pc \in {"returned", "raised"}

\* C23: an article with an unrecognized entity is filtered silently by
\* batch_insert_articles: the call ends as it would have ended without that
\* article (same rows stored, same count, same error if any), and the
\* article is stored under no circumstances.
C23_UnrecognizedArticleFilteredSilently ==
    InsertCallDone
    => LET batch == dedup_call.input
           rest == SelectSeq(batch, Recognized)
           alone == batch_insert_articles(rest, dedup_call.before, "active")
       IN  /\ articles = alone.table
           /\ dedup_call.pc = "returned"
                <=> alone.raised = None
           /\ dedup_call.pc = "returned"
                => /\ dedup_call.result = alone.inserted
                   /\ dedup_call.result
                        = Cardinality(articles) - Cardinality(dedup_call.before)
           /\ \A r \in articles \ dedup_call.before :
                 \E i \in 1..Len(batch) :
                     /\ Recognized(batch[i])
                     /\ batch[i].external_id = r.external_id
                     /\ batch[i].url = r.url

\* a batch of an unrecognized article and a recognized one, neither of
\* them stored before: the call returned 1 and stored the recognized one
C23_Witness ==
    /\ InsertCallDone /\ dedup_call.pc = "returned"
    /\ Len(dedup_call.input) = 2
    /\ ~Recognized(dedup_call.input[1]) /\ Recognized(dedup_call.input[2])
    /\ dedup_call.input[1].external_id = "a1"
    /\ dedup_call.input[1].url = "u1"
    /\ dedup_call.before = {}
    /\ dedup_call.result = 1
    /\ \A r \in articles : r.external_id = "a2" /\ r.url = "u2"

(***************************************************************************)
(* Claims about extract_story_sentiment (SpecExtract)                      *)
(***************************************************************************)
ExtractDone ==
    extract_call # NoneDict /\ extract_call.pc \in {"returned", "raised"}
\* the try block of the function cannot run to its end on this story
ExtractionThrows(story_data) ==
    story_data.t # "dict" \/ try_extract(story_data).failed

\* C25: extract_story_sentiment never raises, and for a story on which
\* the extraction throws it returns the empty aggregate: no points, null
\* Reddit sentiment, zero threads.
C25_ExtractNeverRaises ==
    ExtractDone
    => /\ extract_call.pc = "returned"
       /\ extract_call.raised = None
       /\ ExtractionThrows(extract_call.input)
            => /\ extract_call.result.timeseries = <<>>
               /\ extract_call.result.reddit_sentiment = NoneDict
               /\ extract_call.result.reddit_thread_count = 0

\* the first of the keys under which the entry carries a value that is
\* not None, as the optional value <<x>>
RECURSIVE FirstPresent(_, _)
FirstPresent(entry, keys) ==
    IF keys = <<>> THEN <<>>
    ELSE IF Head(keys) \in DOMAIN entry.v /\ entry.v[Head(keys)].t # "NoneType"
         THEN <<entry.v[Head(keys)]>>
         ELSE FirstPresent(entry, Tail(keys))
EntryTimestamp(entry) == FirstPresent(entry, <<"timestamp", "time", "date">>)
EntrySentiment(entry) == FirstPresent(entry, <<"sentiment", "sentiment_mean">>)
EntryCount(entry) == FirstPresent(entry, <<"article_count", "count">>)
Parseable(ts) ==
    ts # <<>> /\ (ts[1].t = "datetime"
                  \/ (ts[1].t = "str" /\ ts[1].v = "2025-01-01T00:00:00Z"))
\* an entry that carries a parseable timestamp and a numeric sentiment
Usable(entry) ==
    /\ Parseable(EntryTimestamp(entry))
    /\ EntrySentiment(entry) # <<>>
    /\ EntrySentiment(entry)[1].t \in {"int", "float"}
\* the point of a usable entry: its timestamp, its mean in halves, its count
PointOf(entry) ==
    [timestamp |-> IF EntryTimestamp(entry)[1].t = "str" THEN PyDatetime(1)
                   ELSE EntryTimestamp(entry)[1],
     sentiment_mean |-> IF EntrySentiment(entry)[1].t = "int"
                        THEN 2 * EntrySentiment(entry)[1].v
                        ELSE EntrySentiment(entry)[1].v,
     article_count |-> IF EntryCount(entry) = <<>> THEN 1
                       ELSE EntryCount(entry)[1].v]
EntriesOf(story_data) ==
    IF "sentiment_timeseries" \in DOMAIN story_data.v
       /\ story_data.v["sentiment_timeseries"].t = "list"
    THEN story_data.v["sentiment_timeseries"].v ELSE <<>>
UsablePoints(story_data) ==
    LET usable == SelectSeq(EntriesOf(story_data), Usable)
    IN  [i \in 1..Len(usable) |-> PointOf(usable[i])]

\* C29: when the extraction of a story completes, its time series holds
\* exactly one point for every entry with a parseable timestamp and a
\* numeric sentiment under an accepted key (a sentiment of 0 included),
\* with that timestamp, mean and count, in input order; all other entries
\* are skipped.
C29_EveryUsableEntryYieldsOnePoint ==
    (ExtractDone /\ extract_call.pc = "returned"
     /\ ~ExtractionThrows(extract_call.input))
    => extract_call.result.timeseries = UsablePoints(extract_call.input)

ThreadsOf(story_data) ==
    IF "reddit_threads" \in DOMAIN story_data.v
       /\ story_data.v["reddit_threads"].t = "list"
    THEN story_data.v["reddit_threads"].v ELSE <<>>
ThreadValue(thread) == FirstPresent(thread, <<"sentiment", "score">>)
\* a thread that provides a numeric value, 0 included
Provides(thread) ==
    ThreadValue(thread) # <<>> /\ ThreadValue(thread)[1].t \in {"int", "float"}
\* the values provided, in halves
ProvidedValues(story_data) ==
    LET providing == SelectSeq(ThreadsOf(story_data), Provides)
    IN  [i \in 1..Len(providing) |->
            IF ThreadValue(providing[i])[1].t = "int"
            THEN 2 * ThreadValue(providing[i])[1].v
            ELSE ThreadValue(providing[i])[1].v]
RECURSIVE Total(_)
Total(xs) == IF xs = <<>> THEN 0 ELSE Head(xs) + Total(Tail(xs))

\* C30: when the extraction of a story completes, the Reddit sentiment is
\* the arithmetic mean (sum and number of values) over all threads that
\* provide a numeric value, a value of 0 counting as provided; it is null
\* when no thread provides one; and reddit_thread_count is the number of
\* thread entries, with or without a value.
C30_RedditMeanOverProvidingThreads ==
    (ExtractDone /\ extract_call.pc = "returned"
     /\ ~ExtractionThrows(extract_call.input))
    => /\ extract_call.result.reddit_thread_count
             = Len(ThreadsOf(extract_call.input))
       /\ extract_call.result.reddit_sentiment
             = IF ProvidedValues(extract_call.input) = <<>> THEN NoneDict
               ELSE <<Total(ProvidedValues(extract_call.input)),
                      Len(ProvidedValues(extract_call.input))>>

(***************************************************************************)
(* Claims about the story loop of poll_stories_job (SpecStories)           *)
(***************************************************************************)
StoriesJobReturned == job.name = "poll_stories" /\ job.pc = "returned"
\* the entities whose fetch returned: those the job counted successful
FetchedEntities == {k \in 1..NumEntities : job.fetched[k] # <<>>}
\* the stories of entity k that are mappings: their extraction returns
MappingStories(k) ==
    Len(SelectSeq(job.fetched[k][1], LAMBDA story : story.t = "dict"))
RECURSIVE MappingStoriesOf(_)
MappingStoriesOf(ks) ==
    IF ks = {} THEN 0
    ELSE LET k == CHOOSE x \in ks : TRUE
         IN  MappingStories(k) + MappingStoriesOf(ks \ {k})

\* C24: when poll_stories_job has returned, every entity was visited and
\* counted once, an entity whose fetch returned is successful and stays
\* so whatever its stories did, and every well-formed story of every such
\* entity went through the extraction, also those that follow a story
\* whose extraction or store raised.
C24_StoryFailureStaysInsideItsStory ==
    StoriesJobReturned
    => /\ stats.successful = Cardinality(FetchedEntities)
       /\ stats.successful + stats.failed = NumEntities
       /\ stats.stories_with_reddit + stats.stories_without_reddit
             = MappingStoriesOf(FetchedEntities)

(***************************************************************************)
(* Claims about the scheduling of the two jobs (Spec)                      *)
(***************************************************************************)
\* the invocations of a job that have started and not yet returned
Running(job_name) ==
    {i \in ExecIds : /\ inv[i].job_name = job_name
                      /\ inv[i].pc \notin {"idle", "done", "raised", "cancelled"}}
\* a step that starts an invocation of the job
Starts(job_name) ==
    \E i \in ExecIds : /\ inv[i].pc = "idle"
                        /\ inv'[i].pc # "idle"
                        /\ inv'[i].job_name = job_name
C26_Step ==
    \A j \in JobNames : Running(j) # {} => ~Starts(j)

\* C26: at every reachable state at most one invocation of poll_news and
\* at most one of poll_stories has started and not returned, and no step
\* starts an invocation of a job while one of the same job is running: a
\* trigger that comes due during the run is skipped.
C26_NoOverlappingRunsOfOneJob ==
    /\ [](\A j \in JobNames : Cardinality(Running(j)) <= 1)
    /\ [][C26_Step]_vars

\* a poll_news run that has outlasted its interval, so that its next
\* trigger came due during the run, while the scheduler could still start
\* an invocation; poll_stories runs beside it
C26_Witness ==
    /\ scheduler_running
    /\ \E i \in Running("poll_news") :
          now >= inv[i].started_at + NewsIntervalMinutes
    /\ Cardinality(Running("poll_news")) = 1
    /\ Cardinality(Running("poll_stories")) = 1

\* C27: once the scheduler has been shut down, every invocation that was
\* started has run to its end (none is cancelled or left mid-execution),
\* and one that ran through its completion handling has a terminal audit
\* status in its row.
C27_ShutdownDrainsInFlightInvocations ==
    ~scheduler_running
    => \A i \in ExecIds :
          /\ inv[i].pc \in {"idle", "done", "raised"}
          /\ inv[i].pc = "done"
                => \A r \in RowsOf(i) : r.status \in {"success", "failed"}

\* the job body of invocation i raised: the except branch was entered
\* without the success fields having been set
JobRaised(i) ==
    /\ inv[i].log_entry.status = "failed"
    /\ inv[i].log_entry.metadata_json = None

\* C28: while the scheduler runs, a trigger of a job can fire whenever no
\* invocation of that same job is running, whatever the other job is doing
\* or has done (running, failed, raised); and an invocation whose job body
\* raised returns normally with status failed in its audit row: the error
\* does not leave the wrapper.
C28_JobsIndependentErrorsRecorded ==
    /\ \A j \in JobNames :
          (scheduler_running /\ next_execution <= MaxExec /\ Running(j) = {})
          => ENABLED Trigger(j)
    /\ \A i \in ExecIds :
          (JobRaised(i) /\ inv[i].pc \in {"done", "raised"})
          => /\ inv[i].pc = "done"
             /\ \E r \in RowsOf(i) : r.status = "failed"

(***************************************************************************)
(* Claims about the News Job and absent or malformed fields (SpecNews)     *)
(***************************************************************************)
NewsJobReturned == job.name = "poll_news" /\ job.pc = "returned"
\* the batch fetched for entity k, <<>> when its fetch raised or has not run
FetchedBatch(k) == IF job.fetched[k] = <<>> THEN <<>> ELSE job.fetched[k][1]
\* the timestamp of the article is a string that does not parse
BadTimestamp(a) ==
    a.published_at # None /\ a.published_at # "2025-01-01T01:00:00+00:00"
\* the fields table articles requires are present
RequiredPresent(a) ==
    /\ a.external_id # None /\ a.title # None /\ a.url # None
    /\ a.published_at # None
\* every fetch of the invocation returned a batch of articles that carry
\* the required fields
OnlyCompleteBatches ==
    \A k \in 1..NumEntities :
        /\ job.fetched[k] # <<>>
        /\ \A i \in 1..Len(FetchedBatch(k)) : RequiredPresent(FetchedBatch(k)[i])

\* C31: an article whose timestamp string does not parse is handed to
\* deduplication and storage with the current time as its publish time;
\* and in an invocation whose articles lack no required field it is
\* stored with that time and no entity fails.
C31_BadTimestampFallsBackToNow ==
    /\ (job.name = "poll_news" /\ job.pc = "store")
         => LET batch == FetchedBatch(job.entity_index)
            IN  /\ Len(job.storage_articles) = Len(batch)
                /\ \A i \in 1..Len(batch) :
                      BadTimestamp(batch[i])
                      => /\ job.storage_articles[i].published_at = now
                         /\ job.storage_articles[i].external_id
                               = batch[i].external_id
    /\ (NewsJobReturned /\ job.api_key /\ OnlyCompleteBatches)
         => /\ stats.entities_failed = 0
            /\ \A k \in 1..NumEntities :
                 \A i \in 1..Len(FetchedBatch(k)) :
                    BadTimestamp(FetchedBatch(k)[i])
                    => \E r \in articles :
                          /\ r.external_id = FetchedBatch(k)[i].external_id
                          /\ r.published_at = now

\* an invocation at minute 75 has returned after fetching an article with
\* an unparseable timestamp, and the article is stored with minute 75
C31_Witness ==
    /\ NewsJobReturned
    /\ now = 75
    /\ OnlyCompleteBatches
    /\ \E k \in 1..NumEntities :
          \E i \in 1..Len(FetchedBatch(k)) : BadTimestamp(FetchedBatch(k)[i])
    /\ \E r \in articles : r.external_id = "a5" /\ r.published_at = 75

\* the {entity, error} pairs the statistics hold for entity k
ErrorsOf(k) ==
    {i \in 1..Len(stats.errors) : stats.errors[i].entity = ENTITY_NAMES[k]}

\* C32: when poll_news_job has returned, no entity whose fetch returned
\* has an error in the statistics, whatever fields of its articles were
\* null, and every fetched article that carries the required fields is in
\* table articles: a record with a null field is defaulted or skipped on
\* its own.
C32_NullFieldsStayInsideTheirRecord ==
    (NewsJobReturned /\ job.api_key)
    => \A k \in 1..NumEntities :
          job.fetched[k] # <<>>
          => /\ ErrorsOf(k) = {}
             /\ \A i \in 1..Len(FetchedBatch(k)) :
                   RequiredPresent(FetchedBatch(k)[i])
                   => \E r \in articles :
                         r.external_id = FetchedBatch(k)[i].external_id

(***************************************************************************)
(* Claims about repeated upserts (SpecStore)                               *)
(***************************************************************************)
\* the rows that call c found stored for its own bucket
StoredForBucketOf(c) ==
    {r \in c.before : /\ r.entity_id = c.entity_id
                      /\ r.timestamp = c.point.timestamp
                      /\ r.period = "hourly"}

MissingEntities == {k \in 1..NumEntities : ENTITY_NAMES[k] \notin entities}

\* the step the Stories Job takes at an entity that has no row
C34_Step ==
    (/\ job.name = "poll_stories" /\ job.pc = "lookup"
     /\ job.entity_index \in MissingEntities)
    => /\ stats'.failed = stats.failed + 1
       /\ stats'.successful = stats.successful
       /\ job'.fetch_calls = job.fetch_calls
       /\ sentiment_timeseries' = sentiment_timeseries
       /\ \/ job'.pc = "lookup" /\ job'.entity_index = job.entity_index + 1
          \/ job'.pc = "returned" /\ job.entity_index = NumEntities

\* C34: at an entity without a row in the entity store the Stories Job
\* adds one to failed, issues no fetch, stores nothing and moves to the
\* next entity or returns its statistics; when it has returned, no fetch
\* result and no stored row belongs to such an entity, and the entities
\* that have a row were each fetched.
C34_MissingEntityIsPerEntityFailure ==
    /\ [][C34_Step]_vars
    /\ []((StoriesJobReturned /\ job.api_key)
           => /\ \A k \in MissingEntities :
                    /\ job.fetched[k] = <<>>
                    /\ \A r \in sentiment_timeseries : r.entity_id # k
              /\ job.fetch_calls = NumEntities - Cardinality(MissingEntities)
              /\ stats.failed >= Cardinality(MissingEntities))

\* the second entity has no row; the job went on and stored points for
\* the third
C34_Witness ==
    /\ StoriesJobReturned /\ job.api_key
    /\ MissingEntities = {2}
    /\ stats.failed = 1
    /\ stats.successful = 2
    /\ \E r \in sentiment_timeseries : r.entity_id = 3

\* the steps of an invocation are taken in the order fetch, store, next
\* entity: rows are written only by the store step of the entity whose
\* fetch has returned, and a fetch is issued only while no batch waits
\* to be stored
C35_Step ==
    /\ articles' # articles
         => /\ job.name = "poll_news" /\ job.pc = "store"
            /\ job.fetched[job.entity_index] # <<>>
            /\ \A r \in articles' \ articles :
                  \E i \in 1..Len(FetchedBatch(job.entity_index)) :
                     FetchedBatch(job.entity_index)[i].external_id = r.external_id
    /\ sentiment_timeseries' # sentiment_timeseries
         => /\ job.name = "poll_stories" /\ job.pc = "fetch"
            /\ job'.fetched[job.entity_index] # <<>>
            /\ \A r \in sentiment_timeseries' \ sentiment_timeseries :
                  r.entity_id = job.entity_index
    /\ job'.fetch_calls # job.fetch_calls
         => /\ job.pc = "fetch"
            /\ job.storage_articles = <<>>
            /\ job'.fetch_calls = job.fetch_calls + 1
            /\ job'.entity_index >= job.entity_index

C35_Order ==
    /\ job.pc = "store"
         => /\ job.fetched[job.entity_index] # <<>>
            /\ job.storage_articles # <<>>
    /\ job.pc \in {"fetch", "lookup", "returned"}
         => job.storage_articles = <<>>
    /\ \A k \in 1..NumEntities :
          job.fetched[k] # <<>>
          => (k <= job.entity_index \/ job.pc = "returned")

C36_EachEntityCountedOnce ==
    /\ NewsJobReturned
         => /\ stats.entities_processed + stats.entities_failed = NumEntities
            /\ Len(stats.errors) = stats.entities_failed
            /\ \A k \in 1..NumEntities : Cardinality(ErrorsOf(k)) <= 1
    /\ StoriesJobReturned
         => stats.successful + stats.failed = stats.total_entities

(***************************************************************************)
(* Claims about the health map and the audit status (Spec)                 *)
(***************************************************************************)
\* C37: whenever job_last_run holds a time T for a job, the audit log
\* holds a committed row of that job with status success and completion
\* time T: the health map is never ahead of the audit log, and an
\* invocation whose success commit failed leaves it as it was.
C37_HealthMapBackedByAuditLog ==
    \A name \in JobNames :
        job_last_run[name] # NoneTime
        => \E r \in execution_log :
              /\ r.job_name = name
              /\ r.status = "success"
              /\ r.completed_at = job_last_run[name]

\* poll_news succeeded once; a later invocation returned its statistics
\* but its success commit failed, and the map still shows the first time
C37_Witness ==
    \E i, j \in ExecIds :
        /\ inv[i].job_name = "poll_news" /\ inv[j].job_name = "poll_news"
        /\ inv[i].pc = "done" /\ inv[i].log_entry.status = "success"
        /\ inv[j].pc \in {"done", "raised"}
        /\ inv[j].log_entry.status = "failed"
        /\ inv[j].log_entry.metadata_json = "job_stats"
        /\ inv[j].log_entry.completed_at > inv[i].log_entry.completed_at
        /\ job_last_run["poll_news"] = inv[i].log_entry.completed_at

(***************************************************************************)
(* Claims about one invocation and its audit record (SpecRun)              *)
(***************************************************************************)
\* the invocation has left wrapped_job_execution
RunEnded == inv[1].pc \in {"done", "raised"}
\* job_func returned a statistics record to line 71
BodyReturned == job.pc = "returned" /\ stats # NoneDict /\ inv[1].pc # "job"

\* C38: an invocation whose job body returned a statistics record is
\* recorded with status success and refreshes job_last_run, whatever the
\* record says (client not constructed, every entity failed, nothing
\* ingested).
C38_ReturnedBodyIsRecordedSuccess ==
    (RunEnded /\ BodyReturned)
    => /\ \E r \in RowsOf(1) : r.status = "success"
       /\ job_last_run[inv[1].job_name] # NoneTime

\* C39: an invocation whose fetch and store calls all return or raise ends
\* with the job's statistics returned after at most one retried fetch per
\* tracked entity (at most three attempts each, SpecRetry), and its audit
\* row then carries a terminal status.
C39_InvocationEndsWithTerminalAuditRow ==
    RunEnded
    => /\ BodyReturned
       /\ job.fetch_calls <= NumEntities
       /\ \A r \in RowsOf(1) : r.status \in {"success", "failed"}

(***************************************************************************)
(* Claims about the records of fetch_stories in poll_stories_job (SpecJobs)*)
(***************************************************************************)
\* an entry as fetch_stories builds it (asknews_client.py 164-167) with a
\* timestamp and a score that are not None
ClientEntry(entry) ==
    /\ entry.t = "dict"
    /\ Get(entry, "timestamp") # <<>>
    /\ Get(entry, "score") # <<>>
RECURSIVE ClientEntriesOfStories(_)
ClientEntriesOfStories(stories) ==
    IF stories = <<>> THEN 0
    ELSE Len(SelectSeq(EntriesOf(Head(stories)), ClientEntry))
         + ClientEntriesOfStories(Tail(stories))
RECURSIVE ClientEntriesOf(_)
ClientEntriesOf(ks) ==
    IF ks = {} THEN 0
    ELSE LET k == CHOOSE x \in ks : TRUE
         IN  ClientEntriesOfStories(job.fetched[k][1]) + ClientEntriesOf(ks \ {k})

\* C40: when poll_stories_job has returned, it has made one upsert, each
\* answered True on the usable session, for every time-series entry with
\* a timestamp and a score in the stories that fetch_stories returned.
C40_ClientEntriesBecomePoints ==
    StoriesJobReturned
    => stats.timeseries_points_stored = ClientEntriesOf(FetchedEntities)

====
